---- MODULE Spec2Model ----
(***************************************************************************)
(* Ollie backend core: the tool-calling orchestrator (run_conversation),   *)
(* the legacy chat_stream command and its stream registry, the MCP client  *)
(* request/response correlation, and the OpenAI-compatible delta parser.   *)
(*                                                                         *)
(* Text is a sequence of characters; a literal of a format! string is kept *)
(* as one element.  Option<T> is <<>> (None) or <<v>> (Some(v)).           *)
(***************************************************************************)
EXTENDS Integers, Sequences, FiniteSets, TLC

None == <<>>
Some(v) == <<v>>

\* ------------------------------------------------------------------ bounds
\* events the adapter stream of the first turn yields at most; the streams of
\* the later turns yield at most one event, drawn from LateEvents, so that
\* MAX_LOOPS stays within reach
MaxEvents == 2

\* byte chunks one HTTP response body is delivered in, at most
MaxChunks == 2
\* frames an MCP server writes that answer no request, at most
MaxStrays == 2
\* SSE data payloads one OpenAI-compatible response carries, at most
MaxLines == 3
\* records (lines) of a response body delivered as bytes, at most
MaxBodyLines == 2
\* runs of equal characters a tool result's text is made of, before its
\* final newline, at most
MaxRuns == 2
\* send and receive calls on one transport
MaxOps == 3
\* frames one server writes to one transport
MaxFrames == 3
\* provider configs in a Settings value given to settings_set
MaxProviders == 2
\* settings commands in one run
MaxCommands == 3
\* abort_chat calls in one run
MaxAborts == 2
\* SSE data payloads one Anthropic-style response carries, at most
MaxBlockLines == 5
MaxStarts == 3
MaxStops == 2

\* ------------------------------------------------------- program constants
MAX_LOOPS == 10
MAX_RESULT_CHARS == 8000

VARIABLES
    \* ---- ChatOrchestrator::run_conversation
    pc,             \* position of the run_conversation task
    provider,       \* which adapter the orchestrator was built with
    loop_count,
    should_cancel,  \* the shared AtomicBool
    messages,
    full_content,
    tool_calls,
    tool_idx,       \* position of `for call in tool_calls`
    tool_mapping,   \* tool name -> client name, from gather_tools
    emitted,        \* events handed to app.emit, in order
    result,         \* return value of run_conversation
    \* ---- history variables of the run
    calls,          \* stream_chat invocations so far
    nread,          \* events the current stream has yielded
    cancel_at,      \* Len(emitted) when the flag was set, -1 before
    cancel_seen,    \* an event boundary was passed with the flag set
    mcp_calls,      \* call_tool invocations: what each returned, the position
                    \* in messages of the tool message for it, and the position
                    \* in emitted of its chat:tool-start
    taken,          \* events stream.next() has yielded in the current turn
    passed,         \* the message list given to each stream_chat invocation
    turn_at,        \* Len(emitted) when the current stream was opened
    \* ---- commands/chat.rs: chat_stream invocations and the stream registry
    ACTIVE_STREAMS, \* the stream ids registered
    cs_flag,        \* should_cancel of each invocation
    cs_pc,          \* position of each chat_stream task
    cs_buffer,      \* what the unterminated text in `buffer` parses as
    cs_emitted,     \* events each invocation handed to app.emit
    cs_result,      \* what each invocation returned
    cs_chunks,      \* byte chunks each response stream has yielded
    cs_aborts,      \* abort_chat calls so far
    \* ---- mcp/mod.rs, mcp/transport.rs: one McpClient and its server
    next_id,        \* McpClient.next_id
    transport_kind, \* Transport::Stdio or Transport::Sse
    transport_lock, \* the caller holding McpClient.transport, 0 when free
    post_url,       \* SseTransport.post_url
    wire,           \* ids of the requests the server has been sent
    inbox,          \* frames the server has written, not yet received
    closed,         \* the server has closed its end
    mcp_sent,       \* ids of the requests handed to transport.send, in order
    strays,         \* frames the server wrote that answer no request
    mcp_pc,         \* position of each send_request call
    mcp_id,         \* the id each call allocated, 0 before
    mcp_ret,        \* what each call returned
    discarded,      \* frames a call received and dropped
    \* ---- providers/openai.rs: one OpenAIStream
    tool_call_accumulator,  \* index -> partial tool call
    queue,          \* ProviderEvents produced, in order
    data_lines,     \* the data payloads processed so far
    \* ---- providers/ollama.rs, providers/openai.rs: one adapter stream fed bytes
    st_adapter,     \* "ollama" (OllamaStream) or "openai" (OpenAIStream)
    st_body,        \* the bytes of the response body
    st_inner,       \* the bytes `inner` has not yet delivered
    st_buffer,      \* `buffer`: decoded text not yet split into lines
    st_queue,       \* ProviderEvents pushed to `queue`, in order
    st_ended,       \* poll_next has returned Ready(None)
    st_pending,     \* `queue`: the events pushed and not yet yielded
    st_out,         \* the events poll_next has yielded, in order
    st_split,       \* a chunk of `inner` ended inside a character
    st_midline,     \* a chunk of `inner` ended inside a line
    \* ---- orchestrator.rs 138-170: one tool result turned into message content
    tr_text,        \* `text`, the materialized tool result, as runs of characters
    tr_content,     \* `result_content`, or the panic that replaced it
    \* ---- mcp/transport.rs: one Transport, its methods called in any order
    tp_kind,        \* Transport::Stdio or Transport::Sse
    tp_post_url,    \* SseTransport.post_url
    tp_inbox,       \* frames the server has written, not yet taken by receive
    tp_closed,      \* the server has closed its end
    tp_posted,      \* messages written to the child's stdin or POSTed, in order
    tp_log,         \* what each send and receive did and returned, in order
    tp_frames,      \* frames the server has written so far
    \* ---- mcp/mod.rs: one connect / connect_http call and the server it talks to
    cn_kind,        \* "stdio" for connect, "sse" for connect_http
    cn_server,      \* "conforming", or "any" for a server that may do anything
    cn_pc,          \* position of the connect task
    cn_next_id,     \* next_id of the client being built
    cn_id,          \* the id send_request allocated for initialize
    cn_post_url,    \* SseTransport.post_url
    cn_inbox,       \* frames the server has written, not yet received
    cn_closed,      \* the server has closed its end
    cn_wire,        \* ids of the requests the server has got and not answered
    cn_posted,      \* messages handed to the server, in order
    cn_registry,    \* ACTIVE_MCP_CLIENTS: pairs of a name and a client
    cn_registry0,   \* ACTIVE_MCP_CLIENTS when the call began
    cn_result,      \* what the call returned
    cn_trace,       \* the steps of the handshake so far
    cn_frames,      \* frames the server has written so far
    cn_endpoint,    \* the server has sent its endpoint event
    \* ---- commands/settings.rs: the settings file and the commands on it
    sf_file,        \* settings.json: None while it does not exist, else its Settings
    sf_log,         \* what each command was given, found, left and returned
    \* ---- providers/google.rs GeminiStream
    gm_lines,       \* the data payloads process_data_line was given, in order
    gm_queue,       \* GeminiStream.queue
    gm_yielded,     \* the events poll_next returned, in order
    \* ---- providers/*.rs LLMProvider::stream_chat
    sc_adapter,     \* the adapter stream_chat is called on
    sc_messages,    \* its messages argument
    sc_tools,       \* its tools argument: None, or Some list of tool names
    sc_key,         \* config.api_key: "none", "bad" (not a header value) or "ok"
    sc_pc,          \* "start", "first" / "retry" (a request is in flight), "returned"
    sc_requests,    \* the HTTP requests issued, in order
    sc_result,      \* what stream_chat returned
    sc_responses,   \* what each request met, in order
    \* ---- providers/anthropic.rs AnthropicStream
    an_lines,       \* the data payloads process_data_line was given, in order
    an_queue,       \* AnthropicStream.queue: the events pushed, in order
    current_tool_id,\* Option<String>
    current_tool_name,\* Option<String>
    current_tool_args,\* String
    input_tokens,   \* i32
    output_tokens,  \* i32
    \* ---- providers/openai.rs parse_groq_xml_tool_call
    gq_gen,         \* error.failed_generation of a tool_use_failed chunk
    gq_done,        \* whether process_data_line has been given the chunk
    gq_queue,       \* the events it pushed
    \* ---- the adapters' parsers, line by line
    ln_adapter,     \* the adapter whose parser is fed lines
    ol_lines,       \* the lines OllamaStream::process_line was given, in order
    ol_queue,       \* the events it pushed
    \* ---- commands/monitoring.rs: MONITORING_ACTIVE, the start commands, the spawned loops
    MONITORING_ACTIVE,\* the static AtomicBool
    mn_pc,          \* where each start_system_monitoring invocation stands
    mn_task,        \* where the task spawned by each invocation stands
    mn_stops        \* stop_system_monitoring calls made

orchVars == <<pc, provider, loop_count, should_cancel, messages, full_content,
              tool_calls, tool_idx, tool_mapping, emitted, result,
              calls, nread, cancel_at, cancel_seen, mcp_calls, taken, passed,
              turn_at>>

chatVars == <<ACTIVE_STREAMS, cs_flag, cs_pc, cs_buffer, cs_emitted, cs_result, cs_chunks,
              cs_aborts>>

mcpVars == <<next_id, transport_kind, transport_lock, post_url, wire, inbox, closed,
             strays, mcp_pc, mcp_id, mcp_ret, discarded, mcp_sent>>

oaiVars == <<tool_call_accumulator, queue, data_lines>>

streamVars == <<st_adapter, st_body, st_inner, st_buffer, st_queue, st_ended,
                st_pending, st_out, st_split, st_midline>>

truncVars == <<tr_text, tr_content>>

tpVars == <<tp_kind, tp_post_url, tp_inbox, tp_closed, tp_posted, tp_log, tp_frames>>

cnVars == <<cn_kind, cn_server, cn_pc, cn_next_id, cn_id, cn_post_url, cn_inbox, cn_closed, cn_wire, cn_posted, cn_registry, cn_registry0, cn_result, cn_trace, cn_frames, cn_endpoint>>

settingsVars == <<sf_file, sf_log>>

gmVars == <<gm_lines, gm_queue, gm_yielded>>

scVars == <<sc_adapter, sc_messages, sc_tools, sc_key, sc_pc, sc_requests, sc_result,
            sc_responses>>

anVars == <<an_lines, an_queue, current_tool_id, current_tool_name, current_tool_args, input_tokens, output_tokens>>

gqVars == <<gq_gen, gq_done, gq_queue>>

lnVars == <<ln_adapter, ol_lines, ol_queue>>

mnVars == <<MONITORING_ACTIVE, mn_pc, mn_task, mn_stops>>

vars == <<orchVars, chatVars, mcpVars, oaiVars, streamVars, truncVars, tpVars, cnVars,
          settingsVars, gmVars, scVars, anVars, gqVars, lnVars, mnVars>>

\* what the actions of one component leave alone
OrchFrame == UNCHANGED <<chatVars, mcpVars, oaiVars, streamVars, truncVars, tpVars,
                         cnVars, settingsVars, gmVars, scVars, anVars, gqVars, lnVars,
                         mnVars>>
ChatFrame == UNCHANGED <<orchVars, mcpVars, oaiVars, streamVars, truncVars, tpVars,
                         cnVars, settingsVars, gmVars, scVars, anVars, gqVars, lnVars,
                         mnVars>>
McpFrame == UNCHANGED <<orchVars, chatVars, oaiVars, streamVars, truncVars, tpVars,
                        cnVars, settingsVars, gmVars, scVars, anVars, gqVars, lnVars,
                        mnVars>>
OaiFrame == UNCHANGED <<orchVars, chatVars, mcpVars, streamVars, truncVars, tpVars,
                        cnVars, settingsVars, gmVars, scVars, anVars, gqVars, lnVars,
                        mnVars>>
StreamFrame == UNCHANGED <<orchVars, chatVars, mcpVars, oaiVars, truncVars, tpVars,
                           cnVars, settingsVars, gmVars, scVars, anVars, gqVars,
                           lnVars, mnVars>>
TruncFrame == UNCHANGED <<orchVars, chatVars, mcpVars, oaiVars, streamVars, tpVars,
                          cnVars, settingsVars, gmVars, scVars, anVars, gqVars, lnVars,
                          mnVars>>
TpFrame == UNCHANGED <<orchVars, chatVars, mcpVars, oaiVars, streamVars, truncVars,
                       cnVars, settingsVars, gmVars, scVars, anVars, gqVars, lnVars,
                       mnVars>>
CnFrame == UNCHANGED <<orchVars, chatVars, mcpVars, oaiVars, streamVars, truncVars,
                       tpVars, settingsVars, gmVars, scVars, anVars, gqVars, lnVars,
                       mnVars>>
SettingsFrame == UNCHANGED <<orchVars, chatVars, mcpVars, oaiVars, streamVars,
                             truncVars, tpVars, cnVars, gmVars, scVars, anVars, gqVars,
                             lnVars, mnVars>>
GmFrame == UNCHANGED <<orchVars, chatVars, mcpVars, oaiVars, streamVars, truncVars,
                       tpVars, cnVars, settingsVars, scVars, anVars, gqVars, lnVars,
                       mnVars>>
ScFrame == UNCHANGED <<orchVars, chatVars, mcpVars, oaiVars, streamVars, truncVars,
                       tpVars, cnVars, settingsVars, gmVars, anVars, gqVars, lnVars,
                       mnVars>>
AnFrame == UNCHANGED <<orchVars, chatVars, mcpVars, oaiVars, streamVars, truncVars,
                       tpVars, cnVars, settingsVars, gmVars, scVars, gqVars, lnVars,
                       mnVars>>
GqFrame == UNCHANGED <<orchVars, chatVars, mcpVars, oaiVars, streamVars, truncVars,
                       tpVars, cnVars, settingsVars, gmVars, scVars, anVars, lnVars,
                       mnVars>>
LnFrame == UNCHANGED <<orchVars, chatVars, mcpVars, oaiVars, streamVars, truncVars,
                       tpVars, cnVars, settingsVars, gmVars, scVars, anVars, gqVars,
                       mnVars>>
MnFrame == UNCHANGED <<orchVars, chatVars, mcpVars, oaiVars, streamVars, truncVars,
                       tpVars, cnVars, settingsVars, gmVars, scVars, anVars, gqVars,
                       lnVars>>

\* ------------------------------------------------------------- data model
Providers == {"openai", "google", "ollama"}
ToolNames == {"t", "u"}
ACTIVE_MCP_CLIENTS == {"srv1"}
\* the tools each registered MCP server lists
ServerTools(client) == IF client = "srv1" THEN {"t"} ELSE {}

ChatMessage(role, content, tcs, tcid) ==
    [role |-> role, content |-> content, tool_calls |-> tcs, tool_call_id |-> tcid]

initial_messages == << ChatMessage("user", <<"q">>, None, None) >>

\* a tool call as a JSON object: the keys the orchestrator reads
ToolCallValue(id, function) == [id |-> id, function |-> function]

\* google.rs 284-294: the id of a Gemini function call is its name
GeminiToolCall(name) == ToolCallValue(Some(name), Some([name |-> name]))

\* the id an OpenAI-compatible or Ollama server gives the k-th tool call of
\* turn lc: servers issue ids that are unique within the conversation
ServerCallId(lc, k) == "call_" \o ToString(lc) \o "_" \o ToString(k)

\* openai.rs 284-295: a flushed accumulator entry has id and function
OpenAIToolCall(id, name) == ToolCallValue(Some(id), Some([name |-> name]))

\* ollama.rs 200-205: tool_calls elements are passed on as received, so an
\* element may lack "function" or "id"
OllamaToolCalls(id) ==
    { ToolCallValue(Some(id), Some([name |-> n])) : n \in ToolNames }
        \cup { ToolCallValue(Some(id), None),
               ToolCallValue(None, Some([name |-> "t"])) }

ToolCallsOf(p, lc, k) ==
    CASE p = "google" -> { GeminiToolCall(n) : n \in ToolNames }
      [] p = "openai" -> { OpenAIToolCall(ServerCallId(lc, k), n) : n \in ToolNames }
      [] OTHER        -> OllamaToolCalls(ServerCallId(lc, k))

ContentEv(s) == [type |-> "Content", val |-> s]
ToolCallEv(tc) == [type |-> "ToolCall", val |-> tc]
UsageEv == [type |-> "Usage", val |-> <<>>]
ErrorEv(e) == [type |-> "Error", val |-> e]

ProviderEvents(p, lc, k) ==
    {ContentEv(<<"a">>), ContentEv(<<"b">>), UsageEv, ErrorEv(<<"boom">>)}
        \cup { ToolCallEv(tc) : tc \in ToolCallsOf(p, lc, k) }

LateToolCall(p, lc, k) ==
    CASE p = "google" -> GeminiToolCall("t")
      [] p = "openai" -> OpenAIToolCall(ServerCallId(lc, k), "t")
      [] OTHER        -> ToolCallValue(Some(ServerCallId(lc, k)), Some([name |-> "u"]))

LateEvents(p, lc, k) ==
    {ContentEv(<<"a">>), ErrorEv(<<"boom">>), ToolCallEv(LateToolCall(p, lc, k))}

\* the events the adapter stream may yield as the k-th event of turn lc
EventsAt(p, lc, k) ==
    IF lc = 1 THEN ProviderEvents(p, lc, k) ELSE LateEvents(p, lc, k)
StreamLimit(lc) == IF lc = 1 THEN MaxEvents ELSE 1

\* mcp/protocol.rs Content items of a CallToolResult
TextItem(t) == [type |-> "text", text |-> Some(t)]
ImageItem == [type |-> "image", text |-> None]
ResourceItem(t) == [type |-> "resource", text |-> t]

CallToolOk(content, is_error) == [ok |-> TRUE, content |-> content, is_error |-> is_error]
CallToolErr(e) == [ok |-> FALSE, error |-> e]

\* the text of the tool result of scenario S2
S2Text == <<"a", "\n", "b", "\n">>

CallToolOutcomes ==
    { CallToolOk(<<TextItem(<<"r">>)>>, FALSE),
      CallToolOk(<<TextItem(S2Text)>>, FALSE),
      CallToolOk(<<TextItem(<<"x">>), ImageItem, ResourceItem(None),
                   ResourceItem(Some(<<"y">>))>>, FALSE),
      CallToolOk(<<TextItem(<<"f">>)>>, TRUE),
      CallToolOk(<<ImageItem>>, TRUE),
      CallToolErr(<<"Connection closed">>) }

LateCallToolOutcomes == { CallToolOk(<<TextItem(<<"r">>)>>, FALSE) }

OutcomesAt(lc) == IF lc = 1 THEN CallToolOutcomes ELSE LateCallToolOutcomes

\* ------------------------------------------------------------ orchestrator
Emit(topic, payload) == Append(emitted, [topic |-> topic, payload |-> payload])

Topics(evs) == [i \in 1..Len(evs) |-> evs[i].topic]

\* gather_tools: list_tools of every active client; a failing list is skipped
GatherTools(listed) ==
    LET names == UNION { ServerTools(c) : c \in listed }
    IN  [n \in names |-> CHOOSE c \in listed : n \in ServerTools(c)]

\* McpClient::get_client
GetClient(name) == name \in ACTIVE_MCP_CLIENTS

\* the loop bound tested one iteration late
LoopLimitOffByOne(n) == n > MAX_LOOPS

\* line 43
LoopLimitReached(n) == n >= MAX_LOOPS

RECURSIVE Materialize(_)
\* lines 138-151: text and resource.text parts, each followed by a newline
Materialize(content) ==
    IF content = <<>> THEN <<>>
    ELSE LET item == Head(content)
             part == IF item.type \in {"text", "resource"} /\ item.text # None
                     THEN item.text[1] \o <<"\n">> ELSE <<>>
         IN  part \o Materialize(Tail(content))

RECURSIVE RFind(_, _, _)
\* str::rfind over the first n characters: the last position (0-based) of c, or -1
RFind(text, n, c) ==
    IF n = 0 THEN -1
    ELSE IF text[n] = c THEN n - 1 ELSE RFind(text, n - 1, c)

\* lines 153-167
Truncate(text) ==
    IF Len(text) > MAX_RESULT_CHARS
    THEN LET r == RFind(text, MAX_RESULT_CHARS, "\n")
             cut_point == IF r = -1 THEN MAX_RESULT_CHARS ELSE r
         IN  SubSeq(text, 1, cut_point)
               \o <<"\n\n[... Output truncated. Showing ", cut_point, "/", Len(text),
                    " characters. Consider using more specific queries or filters to reduce output size.]">>
    ELSE text

\* lines 136-170: the content of the tool message for one call_tool outcome
ResultContent(out) ==
    IF out.ok THEN Truncate(Materialize(out.content))
    ELSE <<"Error executing tool: ">> \o out.error

\* lines 119-121
CallName(call) == call.function[1].name
CallId(call) == IF call.id = None THEN "" ELSE call.id[1]

\* anyhow::Result<()>: Ok(()) or Err(e); `from` records which statement failed
NoResult == [tag |-> "none", err |-> <<>>, from |-> ""]
Ok == [tag |-> "Ok", err |-> <<>>, from |-> ""]
Err(e, from) == [tag |-> "Err", err |-> e, from |-> from]

Return(r) == pc' = "returned" /\ result' = r

OrchInitWith(adapters) ==
    /\ pc = "start"
    /\ provider \in adapters
    /\ loop_count = 0
    /\ should_cancel = FALSE
    /\ messages = initial_messages
    /\ full_content = <<>>
    /\ tool_calls = <<>>
    /\ tool_idx = 1
    /\ tool_mapping = <<>>
    /\ emitted = <<>>
    /\ result = NoResult
    /\ calls = 0
    /\ nread = 0
    /\ cancel_at = -1
    /\ cancel_seen = FALSE
    /\ mcp_calls = <<>>
    /\ taken = <<>>
    /\ passed = <<>>
    /\ turn_at = 0

\* the tools are gathered and the loop entered without chat:stream-start
StartWithoutEvent ==
    /\ pc = "start"
    /\ \E listed \in SUBSET ACTIVE_MCP_CLIENTS : tool_mapping' = GatherTools(listed)
    /\ pc' = "loop_top"
    /\ UNCHANGED <<provider, loop_count, should_cancel, messages, full_content,
                   tool_calls, tool_idx, emitted, result, calls, nread, cancel_at,
                   cancel_seen, mcp_calls, taken, passed,
                   turn_at>>
    /\ OrchFrame

\* lines 31-40: gather_tools, then chat:stream-start
Start ==
    /\ pc = "start"
    /\ \E listed \in SUBSET ACTIVE_MCP_CLIENTS : tool_mapping' = GatherTools(listed)
    /\ emitted' = Emit("chat:stream-start", <<>>)
    /\ pc' = "loop_top"
    /\ UNCHANGED <<provider, loop_count, should_cancel, messages, full_content,
                   tool_calls, tool_idx, result, calls, nread, cancel_at, cancel_seen,
                   mcp_calls, taken, passed,
                   turn_at>>
    /\ OrchFrame

\* the observed flag is surfaced as an error
CancelledAsError ==
    /\ emitted' = Emit("chat:error", <<"cancelled">>)
    /\ Return(Err(<<"cancelled">>, "cancel"))

\* lines 88-91 (and 49-52): the flag was observed
Cancelled ==
    /\ emitted' = Emit("chat:cancelled", <<>>)
    /\ Return(Ok)

\* the cap is reported to the UI as an error
ExitAtLimitWithError ==
    /\ emitted' = Emit("chat:error", <<"Max loops reached">>)
    /\ Return(Err(<<"Max loops reached">>, "limit"))

\* lines 43-46 and 206: the loop is left and Ok(()) returned
ExitAtLimit ==
    /\ Return(Ok)
    /\ UNCHANGED emitted

\* lines 42-55: the head of one loop iteration, up to the call of stream_chat
LoopTop ==
    /\ pc = "loop_top"
    /\ cancel_seen' = (cancel_seen \/ should_cancel)
    /\ IF LoopLimitReached(loop_count)
       THEN /\ ExitAtLimit
            /\ UNCHANGED <<loop_count, calls, passed>>
       ELSE /\ loop_count' = loop_count + 1
            /\ IF should_cancel
               THEN Cancelled /\ UNCHANGED <<calls, passed>>
               ELSE /\ pc' = "stream_chat"
                    /\ calls' = calls + 1
                    /\ passed' = Append(passed, messages)
                    /\ UNCHANGED <<emitted, result>>
    /\ UNCHANGED <<provider, should_cancel, messages, full_content, tool_calls,
                   tool_idx, tool_mapping, nread, cancel_at, mcp_calls, taken, turn_at>>
    /\ OrchFrame

StreamChatFailures == { <<"API error 500">>, <<"error sending request">> }

\* line 55: stream_chat(...).await? -- a failure leaves through `?`
StreamChatReturn ==
    /\ pc = "stream_chat"
    /\ \/ /\ pc' = "streaming"
          /\ full_content' = <<>>
          /\ tool_calls' = <<>>
          /\ nread' = 0
          /\ taken' = <<>>
          /\ turn_at' = Len(emitted)
          /\ UNCHANGED <<result>>
       \/ \E e \in StreamChatFailures :
            /\ Return(Err(e, "stream_chat"))
            /\ UNCHANGED <<full_content, tool_calls, nread, taken, turn_at>>
    /\ UNCHANGED <<provider, loop_count, should_cancel, messages, tool_idx,
                   tool_mapping, emitted, calls, cancel_at, cancel_seen, mcp_calls, passed>>
    /\ OrchFrame

\* the content is accumulated and nothing is emitted
OnContentEventSilent(s) ==
    /\ full_content' = full_content \o s
    /\ UNCHANGED emitted

\* lines 66-74
OnContentEvent(s) ==
    /\ full_content' = full_content \o s
    /\ emitted' = Emit("chat:chunk", [role |-> "assistant", content |-> s, done |-> FALSE])

\* chat:error is emitted and the loop goes on
OnErrorEventContinue(e) ==
    /\ emitted' = Emit("chat:error", e)
    /\ UNCHANGED <<pc, result>>

\* lines 78-81
OnErrorEvent(e) ==
    /\ emitted' = Emit("chat:error", e)
    /\ Return(Err(e, "event"))

\* chat:complete is emitted without the final chunk
CompletedWithoutFinalChunk ==
    /\ emitted' = Emit("chat:complete", [completed |-> TRUE])
    /\ Return(Ok)

\* lines 94-103 and 206: the final chunk, chat:complete, Ok(())
Completed ==
    /\ emitted' = emitted \o
         << [topic |-> "chat:chunk",
             payload |-> [role |-> "assistant", content |-> <<>>, done |-> TRUE]],
            [topic |-> "chat:complete", payload |-> [completed |-> TRUE]] >>
    /\ Return(Ok)

\* lines 93-114: the turn is complete, or its tool calls are to be executed
TurnDone ==
    IF tool_calls = <<>>
    THEN /\ Completed
         /\ UNCHANGED <<messages, tool_idx>>
    ELSE /\ messages' = Append(messages,
                 ChatMessage("assistant", full_content, Some(tool_calls), None))
         /\ tool_idx' = 1
         /\ pc' = "tools"
         /\ UNCHANGED <<emitted, result>>

\* the flag is not read after the `while let` loop
AfterStreamUnchecked == TurnDone

\* lines 88-114: the code after the `while let` loop, reached when the stream
\* ends and when the loop is left by `break`
AfterStream ==
    IF should_cancel
    THEN Cancelled /\ UNCHANGED <<messages, tool_idx>>
    ELSE TurnDone

\* lines 60-86 (and 88-91 after the break): stream.next() yields Some(event)
StreamEvent ==
    /\ pc = "streaming"
    /\ nread < StreamLimit(loop_count)
    /\ \E event \in EventsAt(provider, loop_count, nread + 1) :
        /\ nread' = nread + 1
        /\ taken' = Append(taken, event)
        /\ cancel_seen' = (cancel_seen \/ should_cancel)
        /\ IF should_cancel
           THEN AfterStream /\ UNCHANGED <<full_content, tool_calls>>
           ELSE CASE event.type = "Content" ->
                        /\ OnContentEvent(event.val)
                        /\ UNCHANGED <<pc, result, tool_calls>>
                  [] event.type = "ToolCall" ->
                        /\ tool_calls' = Append(tool_calls, event.val)
                        /\ UNCHANGED <<pc, result, emitted, full_content>>
                  [] event.type = "Error" ->
                        /\ OnErrorEvent(event.val)
                        /\ UNCHANGED <<full_content, tool_calls>>
                  [] OTHER ->
                        UNCHANGED <<pc, result, emitted, full_content, tool_calls>>
    /\ UNCHANGED <<provider, loop_count, should_cancel, messages, tool_idx,
                   tool_mapping, calls, cancel_at, mcp_calls, passed, turn_at>>
    /\ OrchFrame

\* lines 60, 88-114: stream.next() yields None
StreamEnd ==
    /\ pc = "streaming"
    /\ cancel_seen' = (cancel_seen \/ should_cancel)
    /\ AfterStream
    /\ UNCHANGED <<provider, loop_count, should_cancel, full_content, tool_calls,
                   tool_mapping, calls, nread, cancel_at, mcp_calls, taken, passed,
                   turn_at>>
    /\ OrchFrame

\* lines 132-199: the content of the tool message for one call, where out is
\* what call_tool returns if it is invoked
ToolMessageContent(name, out) ==
    IF name \in DOMAIN tool_mapping
    THEN IF GetClient(tool_mapping[name])
         THEN ResultContent(out)
         ELSE <<"Error: Client ", tool_mapping[name], " not found">>
    ELSE <<"Error: No client found for tool ", name>>

\* whether lines 132-133 reach call_tool
Invokes(name) == name \in DOMAIN tool_mapping /\ GetClient(tool_mapping[name])

NextCall == pc' = IF tool_idx = Len(tool_calls) THEN "loop_top" ELSE "tools"

\* a call_tool failure leaves run_conversation through `?`
RunToolPropagating(call, out) ==
    /\ tool_idx' = tool_idx + 1
    /\ IF call.function = None
       THEN NextCall /\ UNCHANGED <<messages, emitted, mcp_calls, result>>
       ELSE LET name == CallName(call) IN
            /\ emitted' = Emit("chat:tool-start", [tool |-> name])
            /\ mcp_calls' = IF Invokes(name)
                            THEN Append(mcp_calls, [tool |-> name, out |-> out,
                                                     msg |-> Len(messages) + 1,
                                                     at |-> Len(emitted')])
                            ELSE mcp_calls
            /\ IF Invokes(name) /\ ~out.ok
               THEN Return(Err(out.error, "call_tool")) /\ UNCHANGED messages
               ELSE /\ messages' = Append(messages,
                        ChatMessage("tool", ToolMessageContent(name, out), None,
                                    Some(CallId(call))))
                    /\ NextCall /\ UNCHANGED result

\* lines 117-201: the body of `for call in tool_calls` for one call; after the
\* last call the loop goes round
RunTool(call, out) ==
    /\ tool_idx' = tool_idx + 1
    /\ NextCall
    /\ UNCHANGED result
    /\ IF call.function = None
       THEN UNCHANGED <<messages, emitted, mcp_calls>>
       ELSE LET name == CallName(call) IN
            /\ emitted' = Emit("chat:tool-start", [tool |-> name])
            /\ mcp_calls' = IF Invokes(name)
                            THEN Append(mcp_calls, [tool |-> name, out |-> out,
                                                     msg |-> Len(messages) + 1,
                                                     at |-> Len(emitted')])
                            ELSE mcp_calls
            /\ messages' = Append(messages,
                    ChatMessage("tool", ToolMessageContent(name, out), None,
                                Some(CallId(call))))

\* lines 117-204: one iteration of `for call in tool_calls`
ExecTool ==
    /\ pc = "tools"
    /\ \E out \in OutcomesAt(loop_count) : RunTool(tool_calls[tool_idx], out)
    /\ UNCHANGED <<provider, loop_count, should_cancel, full_content, tool_calls,
                   tool_mapping, calls, nread, cancel_at, cancel_seen, taken, passed,
                   turn_at>>
    /\ OrchFrame

\* the stream's flag is set from outside (abort_chat, chat.rs 346-358) while
\* run_conversation is in progress
Cancel ==
    /\ pc # "returned"
    /\ ~should_cancel
    /\ should_cancel' = TRUE
    /\ cancel_at' = Len(emitted)
    /\ UNCHANGED <<pc, provider, loop_count, messages, full_content, tool_calls,
                   tool_idx, tool_mapping, emitted, result, calls, nread, cancel_seen,
                   mcp_calls, taken, passed,
                   turn_at>>
    /\ OrchFrame

OrchNext ==
    \/ Start
    \/ LoopTop
    \/ StreamChatReturn
    \/ StreamEvent
    \/ StreamEnd
    \/ ExecTool
    \/ Cancel

\* --------------------------------------------- commands/chat.rs chat_stream
\* concurrent invocations of the command; the stream id of invocation s is s
Invocations == {1, 2}

\* an NDJSON line is named by what lines 191-228 make of it: "blank" is empty
\* after trim, "bad" fails to parse as ChatChunk, "rec" parses with done =
\* false, "done" parses with done = true.  A byte chunk completes the lines
\* `lines` and leaves text that, were the stream to end, parses as `tail`.
BytesOk(lines, tail) == [ok |-> TRUE, lines |-> lines, tail |-> tail]
BytesErr == [ok |-> FALSE, lines |-> <<>>, tail |-> "blank"]

ByteChunks ==
    { BytesOk(<<"rec">>, "blank"), BytesOk(<<"done">>, "blank"),
      BytesOk(<<"bad">>, "blank"), BytesOk(<<"blank", "rec">>, "bad"),
      BytesOk(<<>>, "rec"), BytesOk(<<>>, "done"),
      BytesOk(<<"done", "rec">>, "blank"), BytesErr }

CsNoResult == [tag |-> "none", success |-> FALSE, error |-> None]
CsOk(success, error) == [tag |-> "Ok", success |-> success, error |-> error]
CsErr(e) == [tag |-> "Err", success |-> FALSE, error |-> Some(e)]

CsEvent(topic, done) == [topic |-> topic, done |-> done]

RECURSIVE ProcessLines(_, _)
\* lines 189-233: the events of the complete lines, up to and including the
\* first one with done = true
ProcessLines(lines, acc) ==
    IF lines = <<>> THEN acc
    ELSE CASE Head(lines) = "rec"  -> ProcessLines(Tail(lines),
                                          Append(acc, CsEvent("chat:chunk", FALSE)))
           [] Head(lines) = "done" -> Append(acc, CsEvent("chat:chunk", TRUE))
           [] OTHER                -> ProcessLines(Tail(lines), acc)

HasDone(lines) == \E i \in 1..Len(lines) : lines[i] = "done"

\* lines 149-153 and 333-337
Unregister(s) == ACTIVE_STREAMS \ {s}

\* lines 256-343: the remaining buffer, chat:complete, the registry entry and
\* the response, for an invocation that left the read loop having emitted evs
Finish(s, evs, buffer, stream_completed) ==
    LET rest == IF buffer \in {"rec", "done"} /\ ~stream_completed
                THEN <<CsEvent("chat:chunk", buffer = "done")>> ELSE <<>>
        completed == stream_completed \/ (buffer = "done")
    IN  /\ cs_emitted' = [cs_emitted EXCEPT ![s] =
                            evs \o rest \o <<CsEvent("chat:complete", completed)>>]
        /\ ACTIVE_STREAMS' = Unregister(s)
        /\ cs_result' = [cs_result EXCEPT ![s] =
                            CsOk(completed, IF completed THEN None
                                            ELSE Some("Stream incomplete"))]
        /\ cs_pc' = [cs_pc EXCEPT ![s] = "returned"]

ChatInit ==
    /\ ACTIVE_STREAMS = {}
    /\ cs_flag = [s \in Invocations |-> FALSE]
    /\ cs_pc = [s \in Invocations |-> "idle"]
    /\ cs_buffer = [s \in Invocations |-> "blank"]
    /\ cs_emitted = [s \in Invocations |-> <<>>]
    /\ cs_result = [s \in Invocations |-> CsNoResult]
    /\ cs_chunks = [s \in Invocations |-> 0]
    /\ cs_aborts = 0

\* lines 63-81: the stream is registered, then the HTTP client is built
CsBegin(s) ==
    /\ cs_pc[s] = "idle"
    /\ ACTIVE_STREAMS' = ACTIVE_STREAMS \cup {s}
    /\ \/ /\ cs_pc' = [cs_pc EXCEPT ![s] = "send"]
          /\ UNCHANGED cs_result
       \/ /\ cs_pc' = [cs_pc EXCEPT ![s] = "returned"]
          /\ cs_result' = [cs_result EXCEPT ![s] = CsErr("builder error")]
    /\ UNCHANGED <<cs_flag, cs_buffer, cs_emitted, cs_chunks, cs_aborts>>
    /\ ChatFrame

\* lines 124-170: the POST returns
CsSend(s) ==
    /\ cs_pc[s] = "send"
    /\ \/ /\ cs_pc' = [cs_pc EXCEPT ![s] = "returned"]
          /\ cs_result' = [cs_result EXCEPT ![s] = CsErr("Failed to send request")]
          /\ UNCHANGED <<ACTIVE_STREAMS, cs_emitted>>
       \/ /\ cs_emitted' = [cs_emitted EXCEPT ![s] =
                <<CsEvent("chat:error", FALSE), CsEvent("chat:complete", FALSE)>>]
          /\ ACTIVE_STREAMS' = Unregister(s)
          /\ cs_result' = [cs_result EXCEPT ![s] = CsOk(FALSE, Some("HTTP error"))]
          /\ cs_pc' = [cs_pc EXCEPT ![s] = "returned"]
       \/ /\ cs_emitted' = [cs_emitted EXCEPT ![s] = <<CsEvent("chat:stream-start", FALSE)>>]
          /\ cs_pc' = [cs_pc EXCEPT ![s] = "streaming"]
          /\ UNCHANGED <<ACTIVE_STREAMS, cs_result>>
    /\ UNCHANGED <<cs_flag, cs_buffer, cs_chunks, cs_aborts>>
    /\ ChatFrame

\* lines 172-254 (and 256-343 when the loop is left): stream.next() yields a chunk
CsChunk(s) ==
    /\ cs_pc[s] = "streaming"
    /\ cs_chunks[s] < MaxChunks
    /\ cs_chunks' = [cs_chunks EXCEPT ![s] = @ + 1]
    /\ \E chunk \in ByteChunks :
         IF cs_flag[s]
         THEN /\ Finish(s, Append(cs_emitted[s], CsEvent("chat:cancelled", FALSE)),
                        cs_buffer[s], FALSE)
              /\ UNCHANGED cs_buffer
         ELSE IF ~chunk.ok
         THEN /\ Finish(s, Append(cs_emitted[s], CsEvent("chat:error", FALSE)),
                        cs_buffer[s], FALSE)
              /\ UNCHANGED cs_buffer
         ELSE LET evs == ProcessLines(chunk.lines, cs_emitted[s])
                  buffer == IF chunk.lines = <<>> /\ chunk.tail = "blank"
                            THEN cs_buffer[s] ELSE chunk.tail
              IN  /\ cs_buffer' = [cs_buffer EXCEPT ![s] = buffer]
                  /\ IF HasDone(chunk.lines)
                     THEN Finish(s, evs, buffer, TRUE)
                     ELSE /\ cs_emitted' = [cs_emitted EXCEPT ![s] = evs]
                          /\ UNCHANGED <<ACTIVE_STREAMS, cs_result, cs_pc>>
    /\ UNCHANGED <<cs_flag, cs_aborts>>
    /\ ChatFrame

\* lines 172, 256-343: stream.next() yields None
CsEnd(s) ==
    /\ cs_pc[s] = "streaming"
    /\ Finish(s, cs_emitted[s], cs_buffer[s], FALSE)
    /\ UNCHANGED <<cs_flag, cs_buffer, cs_chunks, cs_aborts>>
    /\ ChatFrame

\* every flag set, registered or not
CancelAllInvocations(flags, registered) == [s \in Invocations |-> TRUE]

\* lines 351-354: the flag of every entry of the map is stored true
CancelAll(flags, registered) ==
    [s \in Invocations |-> flags[s] \/ s \in registered]

\* lines 346-358
abort_chat ==
    /\ cs_aborts < MaxAborts
    /\ cs_aborts' = cs_aborts + 1
    /\ cs_flag' = CancelAll(cs_flag, ACTIVE_STREAMS)
    /\ UNCHANGED <<ACTIVE_STREAMS, cs_pc, cs_buffer, cs_emitted, cs_result, cs_chunks>>
    /\ ChatFrame

ChatNext ==
    \/ \E s \in Invocations : CsBegin(s)
    \/ \E s \in Invocations : CsSend(s)
    \/ \E s \in Invocations : CsChunk(s)
    \/ \E s \in Invocations : CsEnd(s)
    \/ abort_chat

\* ------------------------------------------- mcp/mod.rs McpClient::send_request
\* concurrent callers of send_request on one client (list_tools and call_tool
\* of several conversations)
Callers == {1, 2}

\* a frame the server writes.  "response" and "notification" deserialize as
\* JsonRpcResponse (a notification has no id); "json" is JSON that does not;
\* "garbage" is not JSON; "endpoint" is the SSE event named endpoint
Frame(kind, id, error) == [kind |-> kind, id |-> id, error |-> error, result |-> FALSE]
\* protocol.rs 14-21: a response may carry `result`, `error`, both or neither
Reply(k, error, res) ==
    [kind |-> "response", id |-> Some(k), error |-> error, result |-> res]
Response(k, error) == Reply(k, error, ~error)

StrayFrames(kind) ==
    { Frame("notification", None, FALSE), Frame("json", None, FALSE),
      Frame("garbage", None, FALSE), Response(0, FALSE) }
        \cup (IF kind = "sse" THEN {Frame("endpoint", None, FALSE)} ELSE {})

McpNoRet == [tag |-> "none", frame |-> Frame("none", None, FALSE)]
McpRet(tag, frame) == [tag |-> tag, frame |-> frame]

\* the response is taken whenever it carries an id
CorrelatesAnyId(resp, id) == resp.id # None

\* line 121: resp.id == Some(id)
Correlates(resp, id) == resp.id = Some(id)

\* the result is preferred to the error
RpcOutcomePreferringResult(resp) ==
    IF resp.result THEN "Ok" ELSE IF resp.error THEN "RpcErr" ELSE "Ok"

\* lines 122-125: the error is looked at first
RpcOutcome(resp) == IF resp.error THEN "RpcErr" ELSE "Ok"

\* line 120: serde_json::from_value::<JsonRpcResponse>
ParsesAsResponse(frame) == frame.kind \in {"response", "notification"}

McpInit ==
    /\ next_id = 1
    /\ transport_kind \in {"stdio", "sse"}
    /\ transport_lock = 0
    /\ post_url = None
    /\ wire = {}
    /\ inbox = <<>>
    /\ closed = FALSE
    /\ strays = 0
    /\ mcp_pc = [c \in Callers |-> "idle"]
    /\ mcp_id = [c \in Callers |-> 0]
    /\ mcp_ret = [c \in Callers |-> McpNoRet]
    /\ discarded = {}
    /\ mcp_sent = <<>>

McpReturn(c, tag, frame) ==
    /\ mcp_pc' = [mcp_pc EXCEPT ![c] = "returned"]
    /\ mcp_ret' = [mcp_ret EXCEPT ![c] = McpRet(tag, frame)]

\* lines 92-98: the next id is allocated
AllocId(c) ==
    /\ mcp_pc[c] = "idle"
    /\ mcp_id' = [mcp_id EXCEPT ![c] = next_id]
    /\ next_id' = next_id + 1
    /\ mcp_pc' = [mcp_pc EXCEPT ![c] = "send"]
    /\ UNCHANGED <<transport_kind, transport_lock, post_url, wire, inbox, closed,
                   strays, mcp_ret, discarded,
                   mcp_sent>>
    /\ McpFrame

\* lines 107-111: the transport is locked, the request is sent, the lock is
\* dropped (transport.rs 41-47 and 99-111)
SendRequest(c) ==
    /\ mcp_pc[c] = "send"
    /\ transport_lock = 0
    /\ IF (transport_kind = "sse" /\ post_url = None) \/ (transport_kind = "stdio" /\ closed)
       THEN /\ McpReturn(c, "SendErr", Frame("none", None, FALSE))
            /\ UNCHANGED <<wire, mcp_sent>>
       ELSE /\ wire' = wire \cup {mcp_id[c]}
            /\ mcp_sent' = Append(mcp_sent, mcp_id[c])
            /\ mcp_pc' = [mcp_pc EXCEPT ![c] = "recv"]
            /\ UNCHANGED mcp_ret
    /\ UNCHANGED <<next_id, transport_kind, transport_lock, post_url, inbox, closed,
                   strays, mcp_id, discarded>>
    /\ McpFrame

\* line 115: the transport is locked for one receive
LockForReceive(c) ==
    /\ mcp_pc[c] = "recv"
    /\ transport_lock = 0
    /\ transport_lock' = c
    /\ mcp_pc' = [mcp_pc EXCEPT ![c] = "receiving"]
    /\ UNCHANGED <<next_id, transport_kind, post_url, wire, inbox, closed, strays,
                   mcp_id, mcp_ret, discarded,
                   mcp_sent>>
    /\ McpFrame

\* lines 116-131 with transport.rs 49-57 (stdio) and 113-132 (SSE): receive
\* takes the next frame, or sees the end of the stream
Receive(c) ==
    /\ mcp_pc[c] = "receiving"
    /\ IF inbox = <<>>
       THEN /\ closed
            /\ transport_lock' = 0
            /\ McpReturn(c, "Closed", Frame("none", None, FALSE))
            /\ UNCHANGED <<inbox, post_url, discarded>>
       ELSE LET frame == Head(inbox) IN
            /\ inbox' = Tail(inbox)
            /\ CASE frame.kind = "endpoint" ->
                      /\ post_url' = Some("url")
                      /\ UNCHANGED <<transport_lock, mcp_pc, mcp_ret, discarded>>
                 [] frame.kind = "garbage" /\ transport_kind = "sse" ->
                      UNCHANGED <<transport_lock, mcp_pc, mcp_ret, discarded, post_url>>
                 [] frame.kind = "garbage" /\ transport_kind = "stdio" ->
                      /\ transport_lock' = 0
                      /\ McpReturn(c, "ParseErr", frame)
                      /\ UNCHANGED <<post_url, discarded>>
                 [] OTHER ->
                      /\ transport_lock' = 0
                      /\ UNCHANGED post_url
                      /\ IF ParsesAsResponse(frame) /\ Correlates(frame, mcp_id[c])
                         THEN /\ McpReturn(c, RpcOutcome(frame), frame)
                              /\ UNCHANGED discarded
                         ELSE /\ discarded' = discarded \cup {[by |-> c, frame |-> frame]}
                              /\ mcp_pc' = [mcp_pc EXCEPT ![c] = "recv"]
                              /\ UNCHANGED mcp_ret
    /\ UNCHANGED <<next_id, transport_kind, wire, closed, strays, mcp_id,
                   mcp_sent>>
    /\ McpFrame

\* the server answers a request it has been sent, with a result or an error
ServerReply ==
    /\ ~closed
    /\ \E k \in wire : \E error, res \in BOOLEAN :
         /\ inbox' = Append(inbox, Reply(k, error, res))
         /\ wire' = wire \ {k}
    /\ UNCHANGED <<next_id, transport_kind, transport_lock, post_url, closed, strays,
                   mcp_pc, mcp_id, mcp_ret, discarded,
                   mcp_sent>>
    /\ McpFrame

\* the server writes a frame that answers no request
ServerStray ==
    /\ ~closed
    /\ strays < MaxStrays
    /\ strays' = strays + 1
    /\ \E frame \in StrayFrames(transport_kind) : inbox' = Append(inbox, frame)
    /\ UNCHANGED <<next_id, transport_kind, transport_lock, post_url, wire, closed,
                   mcp_pc, mcp_id, mcp_ret, discarded,
                   mcp_sent>>
    /\ McpFrame

\* the server exits, or the event stream ends
ServerClose ==
    /\ ~closed
    /\ closed' = TRUE
    /\ UNCHANGED <<next_id, transport_kind, transport_lock, post_url, wire, inbox,
                   strays, mcp_pc, mcp_id, mcp_ret, discarded,
                   mcp_sent>>
    /\ McpFrame

McpNext ==
    \/ \E c \in Callers : AllocId(c)
    \/ \E c \in Callers : SendRequest(c)
    \/ \E c \in Callers : LockForReceive(c)
    \/ \E c \in Callers : Receive(c)
    \/ ServerReply
    \/ ServerStray
    \/ ServerClose

\* ------------------------------------ providers/openai.rs OpenAIStream parser
\* one element of delta.tool_calls: the keys lines 247-270 read, each absent
\* (None) or present
Delta(index, id, type, name, arguments) ==
    [index |-> index, id |-> id, type |-> type, name |-> name, arguments |-> arguments]

DeltasFor(i) ==
    { Delta(Some(i), Some("x"), None, None, None),
      Delta(Some(i), Some("y"), None, None, None),
      Delta(Some(i), None, None, Some("f"), None),
      Delta(Some(i), None, None, None, Some("a")),
      Delta(Some(i), None, None, None, Some("b")),
      Delta(Some(i), Some("x"), Some("function"), Some("f"), Some("a")),
      Delta(Some(i), None, None, None, None) }

ToolDeltas == DeltasFor(0) \cup DeltasFor(1)
                \cup { Delta(None, Some("x"), None, Some("f"), Some("a")) }

\* a choice of a chunk: delta.content, delta.tool_calls, finish_reason
Choice(content, deltas, finish) ==
    [content |-> content, tool_calls |-> deltas, finish |-> finish]

\* a data payload: "[DONE]", a chunk, Groq's tool_use_failed error, or text
\* that parses as none of them
DoneLine == [kind |-> "[DONE]"]
ChunkLine(usage, choices) == [kind |-> "chunk", usage |-> usage, choices |-> choices]
GroqLine(gen) == [kind |-> "groq", failed_generation |-> gen]
BadLine == [kind |-> "bad"]

DataLines ==
    { ChunkLine(FALSE, <<Choice(None, Some(<<d>>), f)>>) : d \in ToolDeltas, f \in BOOLEAN }
      \cup { ChunkLine(FALSE, <<Choice(None, Some(<<d0, d1>>), FALSE)>>) :
                d0 \in {Delta(Some(1), Some("y"), None, Some("f"), Some("b"))},
                d1 \in {Delta(Some(0), Some("x"), None, Some("f"), Some("a"))} }
      \cup { ChunkLine(FALSE, <<Choice(Some("h"), None, FALSE)>>),
             ChunkLine(FALSE, <<Choice(Some(""), None, TRUE)>>),
             ChunkLine(TRUE, <<>>),
             DoneLine, BadLine,
             GroqLine([name |-> "f", arguments |-> "a", valid |-> TRUE]),
             GroqLine([name |-> "f", arguments |-> "a", valid |-> FALSE]) }

\* lines 248-252
NewEntry == [id |-> "", type |-> "function", name |-> "", arguments |-> ""]

\* the arguments delta replaces what was accumulated
MergeReplacingArguments(entry, call) ==
    [ id        |-> IF call.id # None THEN call.id[1] ELSE entry.id,
      type      |-> IF call.type # None THEN call.type[1] ELSE entry.type,
      name      |-> IF call.name # None THEN entry.name \o call.name[1] ELSE entry.name,
      arguments |-> IF call.arguments # None THEN call.arguments[1] ELSE entry.arguments ]

\* lines 254-271: id and type replace, name and arguments append
Merge(entry, call) ==
    [ id        |-> IF call.id # None THEN call.id[1] ELSE entry.id,
      type      |-> IF call.type # None THEN call.type[1] ELSE entry.type,
      name      |-> IF call.name # None THEN entry.name \o call.name[1] ELSE entry.name,
      arguments |-> IF call.arguments # None
                    THEN entry.arguments \o call.arguments[1] ELSE entry.arguments ]

\* lines 247-272: one element of delta.tool_calls
Accumulate(acc, call) ==
    IF call.index = None THEN acc
    ELSE LET i == call.index[1]
             entry == IF i \in DOMAIN acc THEN acc[i] ELSE NewEntry
         IN  [k \in DOMAIN acc \cup {i} |-> IF k = i THEN Merge(entry, call) ELSE acc[k]]

RECURSIVE AccumulateAll(_, _)
\* line 246: for call in tool_calls
AccumulateAll(acc, deltas) ==
    IF deltas = <<>> THEN acc
    ELSE AccumulateAll(Accumulate(acc, Head(deltas)), Tail(deltas))

AccumulatedCall(entry) ==
    [type |-> "ToolCall",
     val |-> [id |-> entry.id, type |-> entry.type,
              function |-> [name |-> entry.name, arguments |-> entry.arguments]]]

RECURSIVE FlushFrom(_, _)
\* lines 287-294: the entries in ascending index order
FlushFrom(acc, indices) ==
    IF indices = {} THEN <<>>
    ELSE LET i == CHOOSE m \in indices : \A k \in indices : m <= k
         IN  <<AccumulatedCall(acc[i])>> \o FlushFrom(acc, indices \ {i})

\* lines 284-295 flush_tool_calls: the state [acc, queue] after the flush
FlushToolCalls(st) ==
    [acc |-> <<>>, queue |-> st.queue \o FlushFrom(st.acc, DOMAIN st.acc)]

\* lines 236-280: one choice
ProcessChoice(st, choice) ==
    LET q1 == IF choice.content # None /\ choice.content[1] # ""
              THEN Append(st.queue, [type |-> "Content", val |-> choice.content[1]])
              ELSE st.queue
        a1 == IF choice.tool_calls # None
              THEN AccumulateAll(st.acc, choice.tool_calls[1]) ELSE st.acc
        st1 == [acc |-> a1, queue |-> q1]
    IN  IF choice.finish THEN FlushToolCalls(st1) ELSE st1

RECURSIVE ProcessChoices(_, _)
ProcessChoices(st, choices) ==
    IF choices = <<>> THEN st
    ELSE ProcessChoices(ProcessChoice(st, Head(choices)), Tail(choices))

\* lines 298-336 parse_groq_xml_tool_call, for a failed_generation whose name
\* and arguments were found
GroqToolCall(gen) ==
    [type |-> "ToolCall",
     val |-> [id |-> "groq_call_0", type |-> "function",
              function |-> [name |-> gen.name, arguments |-> gen.arguments]]]

\* lines 206-282 process_data_line
ProcessDataLineOn(st, line) ==
    CASE line.kind = "[DONE]" -> FlushToolCalls(st)
      [] line.kind = "groq" ->
            IF line.failed_generation.valid
            THEN [st EXCEPT !.queue = Append(@, GroqToolCall(line.failed_generation))]
            ELSE st
      [] line.kind = "chunk" ->
            LET q1 == IF line.usage
                      THEN Append(st.queue, [type |-> "Usage", val |-> <<>>])
                      ELSE st.queue
            IN  ProcessChoices([st EXCEPT !.queue = q1], line.choices)
      [] OTHER -> st

OaiInit ==
    /\ tool_call_accumulator = <<>>
    /\ queue = <<>>
    /\ data_lines = <<>>

\* openai.rs 358-361: the next data payload of the response is processed
ProcessDataLine ==
    /\ Len(data_lines) < MaxLines
    /\ \E line \in DataLines :
        LET st == ProcessDataLineOn([acc |-> tool_call_accumulator, queue |-> queue], line)
        IN  /\ tool_call_accumulator' = st.acc
            /\ queue' = st.queue
            /\ data_lines' = Append(data_lines, line)
    /\ OaiFrame

OaiNext == ProcessDataLine

\* --------------------- ollama.rs OllamaStream / openai.rs OpenAIStream on bytes
\* A body is a sequence of bytes.  The ASCII text of a record around its
\* content is kept as one element, since a chunk boundary inside ASCII text
\* leaves the decoded text as it is:
\*   "{"  {"message":{"role":"assistant","content":"      (local daemon)
\*   "M"  {"message":{"content":"                         (local daemon, no role)
\*   "D"  data: {"choices":[{"delta":{"content":"         (OpenAI-compatible)
\*   "}"  the rest of a record with done = false / no finish_reason
\*   "!"  the rest of a record with done = true and both token counts
\* "a" is an ASCII character of the content; "L", "T" are the lead and the
\* continuation byte of one two-byte character, which decodes to "E".
\* "FFFD" is U+FFFD, what a lossy decoder puts for an ill-formed sequence.
Contents == { <<>>, <<"a">>, <<"L", "T">>, <<"a", "L", "T">> }

Prefixes(adapter) == IF adapter = "ollama" THEN {"{", "M"} ELSE {"D"}
Suffixes(adapter) == IF adapter = "ollama" THEN {"}", "!"} ELSE {"}"}
Terminator(adapter) == IF adapter = "ollama" THEN <<"\n">> ELSE <<"\n", "\n">>

BodyLines(adapter) ==
    { <<p>> \o c \o <<x>> : p \in Prefixes(adapter), c \in Contents, x \in Suffixes(adapter) }

RECURSIVE BodiesOf(_, _)
\* the bodies of exactly n records, each ended by the adapter's line terminator
BodiesOf(adapter, n) ==
    IF n = 0 THEN { <<>> }
    ELSE { l \o Terminator(adapter) \o b : l \in BodyLines(adapter), b \in BodiesOf(adapter, n - 1) }

\* well-formed bodies; the terminator of the last record may be missing
Bodies(adapter) ==
    LET whole == UNION { BodiesOf(adapter, n) : n \in 1..MaxBodyLines }
    IN  whole \cup { SubSeq(b, 1, Len(b) - Len(Terminator(adapter))) : b \in whole }

RECURSIVE Utf8Lossy(_)
\* String::from_utf8_lossy over one chunk of bytes
Utf8Lossy(bytes) ==
    IF bytes = <<>> THEN <<>>
    ELSE IF Head(bytes) = "L"
         THEN IF Len(bytes) >= 2 /\ bytes[2] = "T"
              THEN <<"E">> \o Utf8Lossy(SubSeq(bytes, 3, Len(bytes)))
              ELSE <<"FFFD">> \o Utf8Lossy(Tail(bytes))
    ELSE IF Head(bytes) = "T" THEN <<"FFFD">> \o Utf8Lossy(Tail(bytes))
    ELSE <<Head(bytes)>> \o Utf8Lossy(Tail(bytes))

\* str::find('\n'): the position of the first newline, 0 if there is none
FindNewline(text) ==
    IF \E k \in 1..Len(text) : text[k] = "\n"
    THEN CHOOSE k \in 1..Len(text) : text[k] = "\n" /\ \A j \in 1..(k - 1) : text[j] # "\n"
    ELSE 0

IsContentText(text) == \A k \in 1..Len(text) : text[k] \in {"a", "E", "FFFD"}

\* ollama.rs 13-28: what serde makes of a line.  `role`, `content` and `done`
\* have no default, so a record lacking one of them does not deserialize
OllamaRecord(message, done, prompt_eval_count, eval_count) ==
    [message |-> message, done |-> done,
     prompt_eval_count |-> prompt_eval_count, eval_count |-> eval_count]
OllamaMessage(role, content, tcs) == [role |-> role, content |-> content, tool_calls |-> tcs]

DeserializesAsOllamaResponse(rec) ==
    /\ rec.done # None
    /\ rec.message # None => (rec.message[1].role # None /\ rec.message[1].content # None)

\* the JSON value a line of text is, or None when it is not JSON
OllamaJson(line) ==
    IF Len(line) >= 2 /\ line[1] \in {"{", "M"} /\ line[Len(line)] \in {"}", "!"}
         /\ IsContentText(SubSeq(line, 2, Len(line) - 1))
    THEN LET done == line[Len(line)] = "!"
         IN  Some(OllamaRecord(
                Some(OllamaMessage(IF line[1] = "{" THEN Some("assistant") ELSE None,
                                   Some(SubSeq(line, 2, Len(line) - 1)), None)),
                Some(done),
                IF done THEN Some(3) ELSE None,
                IF done THEN Some(2) ELSE None))
    ELSE None

UnwrapOr(opt, default) == IF opt = None THEN default ELSE opt[1]

\* ollama.rs 192-217: the events of a record that deserialized
OllamaEvents(rec) ==
    (IF rec.message # None
     THEN (IF rec.message[1].content[1] # <<>>
           THEN <<ContentEv(rec.message[1].content[1])>> ELSE <<>>)
          \o (IF rec.message[1].tool_calls # None
              THEN [k \in 1..Len(rec.message[1].tool_calls[1]) |->
                        ToolCallEv(rec.message[1].tool_calls[1][k])]
              ELSE <<>>)
     ELSE <<>>)
    \o (IF rec.done[1]
        THEN <<[type |-> "Usage",
                val |-> [prompt_tokens |-> rec.prompt_eval_count,
                         completion_tokens |-> rec.eval_count,
                         total_tokens |-> Some(UnwrapOr(rec.prompt_eval_count, 0)
                                                + UnwrapOr(rec.eval_count, 0))]]>>
        ELSE <<>>)

\* a line that does not parse is reported as an Error event
OllamaProcessLineReporting(line) ==
    IF line = <<>> THEN <<>>
    ELSE LET json == OllamaJson(line)
         IN  IF json # None /\ DeserializesAsOllamaResponse(json[1])
             THEN OllamaEvents(json[1]) ELSE <<ErrorEv(<<"Parse error">>)>>

\* ollama.rs 189-223 process_line: the events pushed for one line
OllamaProcessLine(line) ==
    IF line = <<>> THEN <<>>
    ELSE LET json == OllamaJson(line)
         IN  IF json # None /\ DeserializesAsOllamaResponse(json[1])
             THEN OllamaEvents(json[1]) ELSE <<>>

\* openai.rs 355-361 with 227-242: the events pushed for one line whose data
\* payload is a chunk that carries content only
OpenAIProcessLine(line) ==
    IF Len(line) >= 2 /\ line[1] = "D" /\ line[Len(line)] = "}"
         /\ IsContentText(SubSeq(line, 2, Len(line) - 1))
         /\ Len(line) > 2
    THEN <<ContentEv(SubSeq(line, 2, Len(line) - 1))>>
    ELSE <<>>

ProcessLine(adapter, line) ==
    IF adapter = "ollama" THEN OllamaProcessLine(line) ELSE OpenAIProcessLine(line)

RECURSIVE DrainLines(_, _, _)
\* ollama.rs 243-248, openai.rs 354-363: while the buffer holds a newline, the
\* text before it is processed as a line
DrainLines(adapter, text, events) ==
    LET pos == FindNewline(text)
    IN  IF pos = 0 THEN [buffer |-> text, queue |-> events]
        ELSE DrainLines(adapter, SubSeq(text, pos + 1, Len(text)),
                        events \o ProcessLine(adapter, SubSeq(text, 1, pos - 1)))

\* a chunk is split into lines without the text left over from earlier chunks
OnBytesFreshBuffer(adapter, text, events, bytes) ==
    DrainLines(adapter, Utf8Lossy(bytes), events)

\* the bytes of one chunk are decoded on their own and appended to the buffer
OnBytes(adapter, text, events, bytes) ==
    DrainLines(adapter, text \o Utf8Lossy(bytes), events)

\* ollama.rs 258-269, openai.rs 372-375: the inner stream has ended
OnEnd(adapter, text, events) ==
    IF adapter = "ollama" /\ text # <<>>
    THEN [buffer |-> <<>>, queue |-> events \o OllamaProcessLine(text)]
    ELSE [buffer |-> text, queue |-> events]

StreamIdle ==
    /\ st_adapter = "ollama"
    /\ st_body = <<>>
    /\ st_inner = <<>>
    /\ st_buffer = <<>>
    /\ st_queue = <<>>
    /\ st_ended = TRUE
    /\ st_pending = <<>>
    /\ st_out = <<>>
    /\ st_split = FALSE
    /\ st_midline = FALSE

StreamInit ==
    /\ st_adapter \in {"ollama", "openai"}
    /\ st_body \in Bodies(st_adapter)
    /\ st_inner = st_body
    /\ st_buffer = <<>>
    /\ st_queue = <<>>
    /\ st_ended = FALSE
    /\ st_pending = <<>>
    /\ st_out = <<>>
    /\ st_split = FALSE
    /\ st_midline = FALSE

\* ollama.rs 250-252 and 263-265, openai.rs 365-367: after a chunk or the
\* trailing buffer was processed, the first of the pushed events is returned
\* and the others stay in `queue`
Yield(pushed) ==
    IF pushed = <<>> THEN [out |-> <<>>, pending |-> <<>>]
    ELSE [out |-> <<Head(pushed)>>, pending |-> Tail(pushed)]

\* ollama.rs 231-233, openai.rs 343-345: poll_next finds an event in `queue`
StreamPop ==
    /\ ~st_ended
    /\ st_pending # <<>>
    /\ st_out' = Append(st_out, Head(st_pending))
    /\ st_pending' = Tail(st_pending)
    /\ UNCHANGED <<st_adapter, st_body, st_inner, st_buffer, st_queue, st_ended,
                 st_split, st_midline>>
    /\ StreamFrame

\* poll_next with `queue` empty: inner yields Some(Ok(bytes)), any non-empty
\* prefix of what is left
StreamBytes ==
    /\ ~st_ended
    /\ st_pending = <<>>
    /\ \E n \in 1..Len(st_inner) :
        LET st == OnBytes(st_adapter, st_buffer, <<>>, SubSeq(st_inner, 1, n))
            y == Yield(st.queue)
        IN  /\ st_inner' = SubSeq(st_inner, n + 1, Len(st_inner))
            /\ st_buffer' = st.buffer
            /\ st_queue' = st_queue \o st.queue
            /\ st_out' = st_out \o y.out
            /\ st_pending' = y.pending
            /\ st_split' = (st_split \/ st_inner[n] = "L")
            /\ st_midline' = (st_midline \/ (n < Len(st_inner) /\ st_inner[n] # "\n"))
    /\ UNCHANGED <<st_adapter, st_body, st_ended>>
    /\ StreamFrame

\* poll_next with `queue` empty: inner yields None.  OllamaStream returns the
\* first event of a trailing line and reports the end on a later call, when
\* the buffer is empty
StreamEnds ==
    /\ ~st_ended
    /\ st_pending = <<>>
    /\ st_inner = <<>>
    /\ LET st == OnEnd(st_adapter, st_buffer, <<>>)
           y == Yield(st.queue)
       IN  /\ st_buffer' = st.buffer
           /\ st_queue' = st_queue \o st.queue
           /\ st_out' = st_out \o y.out
           /\ st_pending' = y.pending
           /\ st_ended' = (st.queue = <<>>)
    /\ UNCHANGED <<st_adapter, st_body, st_inner, st_split, st_midline>>
    /\ StreamFrame

StreamNext == StreamPop \/ StreamBytes \/ StreamEnds

\* ------------------------------- orchestrator.rs 153-167 on long tool results
\* A long text is a sequence of runs [ch, n]: n times the character ch, where
\* "x" is an ASCII character, "\n" the newline, and "E" a character of two
\* UTF-8 bytes.  String::len and string slices count bytes.
Run(ch, n) == [ch |-> ch, n |-> n]
Width(ch) == IF ch = "E" THEN 2 ELSE 1

RunLengths == {1, 3999, 4000, 7999, 8000}

RECURSIVE RunSeqs(_)
RunSeqs(k) ==
    IF k = 0 THEN { <<>> }
    ELSE RunSeqs(k - 1) \cup
         { Append(r, Run(ch, n)) : r \in { q \in RunSeqs(k - 1) : Len(q) = k - 1 },
                                   ch \in {"x", "\n", "E"}, n \in RunLengths }

\* lines 138-151 end every part with a newline, so a text that is not empty
\* ends with one
ResultTexts == { <<>> } \cup { Append(r, Run("\n", 1)) : r \in RunSeqs(MaxRuns) }

RECURSIVE ByteLen(_)
\* String::len
ByteLen(runs) ==
    IF runs = <<>> THEN 0
    ELSE Head(runs).n * Width(Head(runs).ch) + ByteLen(Tail(runs))

RECURSIVE IsCharBoundary(_, _)
\* str::is_char_boundary(k), for k <= len
IsCharBoundary(runs, k) ==
    IF k = 0 \/ runs = <<>> THEN TRUE
    ELSE LET b == Head(runs).n * Width(Head(runs).ch)
         IN  IF k >= b THEN IsCharBoundary(Tail(runs), k - b)
             ELSE k % Width(Head(runs).ch) = 0

RECURSIVE RFindNewline(_, _, _, _)
\* text[..k].rfind('\n'): the byte index of the last newline before byte k, -1
\* if there is none; off is the byte index at which runs starts
RFindNewline(runs, k, off, best) ==
    IF runs = <<>> \/ off >= k THEN best
    ELSE LET r == Head(runs)
             end == IF off + r.n * Width(r.ch) < k THEN off + r.n * Width(r.ch) ELSE k
         IN  RFindNewline(Tail(runs), k, off + r.n * Width(r.ch),
                          IF r.ch = "\n" THEN end - 1 ELSE best)

RECURSIVE TakeBytes(_, _)
\* &text[..k], for k a character boundary
TakeBytes(runs, k) ==
    IF k = 0 \/ runs = <<>> THEN <<>>
    ELSE LET r == Head(runs)
             b == r.n * Width(r.ch)
         IN  IF k >= b THEN <<r>> \o TakeBytes(Tail(runs), k - b)
             ELSE <<Run(r.ch, k \div Width(r.ch))>>

\* result_content: the text, and the figures of the truncation notice if there
\* is one; or the panic of a slice that does not end on a character boundary
ResultText(text, notice) == [tag |-> "content", text |-> text, notice |-> notice]
Panic == [tag |-> "panic", text |-> <<>>, notice |-> None]
NoContent == [tag |-> "none", text |-> <<>>, notice |-> None]

\* lines 153-167
TruncateResult(text) ==
    IF ByteLen(text) > MAX_RESULT_CHARS
    THEN IF ~IsCharBoundary(text, MAX_RESULT_CHARS) THEN Panic
         ELSE LET r == RFindNewline(text, MAX_RESULT_CHARS, 0, -1)
                  cut_point == IF r = -1 THEN MAX_RESULT_CHARS ELSE r
              IN  ResultText(TakeBytes(text, cut_point),
                          Some([showing |-> cut_point, of |-> ByteLen(text)]))
    ELSE ResultText(text, None)

TruncIdle == tr_text = <<>> /\ tr_content = NoContent

TruncInit == tr_text \in ResultTexts /\ tr_content = NoContent

\* lines 136-168: call_tool returned Ok(res) and the content is built
BuildResultContent ==
    /\ tr_content = NoContent
    /\ tr_content' = TruncateResult(tr_text)
    /\ UNCHANGED tr_text
    /\ TruncFrame

TruncNext == BuildResultContent

\* ------------------------------------------ mcp/transport.rs Transport methods
\* what the server may write: the frames of StrayFrames, a response, and on
\* the event stream also Event::Open and a stream error
TransportFrames(kind) ==
    { Frame("notification", None, FALSE), Frame("garbage", None, FALSE), Response(1, FALSE) }
        \cup (IF kind = "sse"
              THEN { Frame("endpoint", None, FALSE), Frame("open", None, FALSE),
                     Frame("stream_error", None, FALSE) }
              ELSE { Frame("json", None, FALSE) })

NoFrame == Frame("none", None, FALSE)

\* the outcome of one call: its Result, what it took from the server's
\* frames, and the transport's fields after it
Outcome(op, tag, frame, consumed, inbox_, url, posted) ==
    [op |-> op, tag |-> tag, frame |-> frame, consumed |-> consumed,
     inbox |-> inbox_, post_url |-> url, posted |-> posted]

\* the message is POSTed although no endpoint is known
SseSendWithoutEndpoint(url, posted, message, delivered) ==
    IF delivered
    THEN Outcome("send", "Ok", NoFrame, <<>>, <<>>, url, Append(posted, message))
    ELSE Outcome("send", "HttpErr", NoFrame, <<>>, <<>>, url, posted)

\* transport.rs 99-111 SseTransport::send; delivered is whether the POST was
\* sent and answered with a success status
SseSend(url, posted, message, delivered) ==
    IF url # None
    THEN IF delivered
         THEN Outcome("send", "Ok", NoFrame, <<>>, <<>>, url, Append(posted, message))
         ELSE Outcome("send", "HttpErr", NoFrame, <<>>, <<>>, url, posted)
    ELSE Outcome("send", "NoEndpoint", NoFrame, <<>>, <<>>, url, posted)

\* transport.rs 41-47 StdioTransport::send; delivered is whether the writes
\* and the flush succeeded
StdioSend(posted, message, delivered) ==
    IF delivered
    THEN Outcome("send", "Ok", NoFrame, <<>>, <<>>, None, Append(posted, message))
    ELSE Outcome("send", "IoErr", NoFrame, <<>>, <<>>, None, posted)

RECURSIVE SseReceive(_, _, _, _)
\* transport.rs 113-132 SseTransport::receive: the events are taken in order
\* until one makes it return; "Pending" is a call that is still awaiting
SseReceive(frames, url, ended, consumed) ==
    IF frames = <<>>
    THEN Outcome("receive", IF ended THEN "None" ELSE "Pending", NoFrame, consumed,
                 <<>>, url, <<>>)
    ELSE LET f == Head(frames)
             seen == Append(consumed, f)
         IN  CASE f.kind = "open" -> SseReceive(Tail(frames), url, ended, seen)
               [] f.kind = "endpoint" -> SseReceive(Tail(frames), Some("url"), ended, seen)
               [] f.kind = "garbage" -> SseReceive(Tail(frames), url, ended, seen)
               [] f.kind = "stream_error" ->
                     Outcome("receive", "SseErr", NoFrame, seen, Tail(frames), url, <<>>)
               [] OTHER ->
                     Outcome("receive", "Some", f, seen, Tail(frames), url, <<>>)

\* transport.rs 49-57 StdioTransport::receive: one line is read
StdioReceive(frames, ended) ==
    IF frames = <<>>
    THEN Outcome("receive", IF ended THEN "None" ELSE "Pending", NoFrame, <<>>,
                 <<>>, None, <<>>)
    ELSE LET f == Head(frames)
         IN  IF f.kind = "garbage"
             THEN Outcome("receive", "ParseErr", NoFrame, <<f>>, Tail(frames), None, <<>>)
             ELSE Outcome("receive", "Some", f, <<f>>, Tail(frames), None, <<>>)

\* transport.rs 151-163: the Transport enum dispatches on its variant
TransportSend(kind, url, posted, message, delivered) ==
    IF kind = "sse" THEN SseSend(url, posted, message, delivered)
    ELSE StdioSend(posted, message, delivered)

TransportReceive(kind, frames, url, ended) ==
    IF kind = "sse" THEN SseReceive(frames, url, ended, <<>>)
    ELSE StdioReceive(frames, ended)

TpIdle ==
    /\ tp_kind = "stdio"
    /\ tp_post_url = None
    /\ tp_inbox = <<>>
    /\ tp_closed = TRUE
    /\ tp_posted = <<>>
    /\ tp_log = <<>>
    /\ tp_frames = MaxFrames

\* transport.rs 21-39 and 78-97: a transport as `new` returns it
TpInit ==
    /\ tp_kind \in {"stdio", "sse"}
    /\ tp_post_url = None
    /\ tp_inbox = <<>>
    /\ tp_closed = FALSE
    /\ tp_posted = <<>>
    /\ tp_log = <<>>
    /\ tp_frames = 0

\* Transport::send is called; a write to a server that is gone fails
TpSend ==
    /\ Len(tp_log) < MaxOps
    /\ \E delivered \in (IF tp_closed THEN {FALSE} ELSE BOOLEAN) :
        LET out == TransportSend(tp_kind, tp_post_url, tp_posted, "request", delivered)
        IN  /\ tp_posted' = out.posted
            /\ tp_log' = Append(tp_log, out)
    /\ UNCHANGED <<tp_kind, tp_post_url, tp_inbox, tp_closed, tp_frames>>
    /\ TpFrame

\* Transport::receive is called and returns
TpReceive ==
    /\ Len(tp_log) < MaxOps
    /\ LET out == TransportReceive(tp_kind, tp_inbox, tp_post_url, tp_closed)
       IN  /\ out.tag # "Pending"
           /\ tp_inbox' = out.inbox
           /\ tp_post_url' = out.post_url
           /\ tp_log' = Append(tp_log, out)
    /\ UNCHANGED <<tp_kind, tp_closed, tp_posted, tp_frames>>
    /\ TpFrame

\* the server writes a frame
TpServerFrame ==
    /\ ~tp_closed
    /\ tp_frames < MaxFrames
    /\ tp_frames' = tp_frames + 1
    /\ \E f \in TransportFrames(tp_kind) : tp_inbox' = Append(tp_inbox, f)
    /\ UNCHANGED <<tp_kind, tp_post_url, tp_closed, tp_posted, tp_log>>
    /\ TpFrame

\* the server exits, or ends the event stream
TpServerClose ==
    /\ ~tp_closed
    /\ tp_closed' = TRUE
    /\ UNCHANGED <<tp_kind, tp_post_url, tp_inbox, tp_posted, tp_log, tp_frames>>
    /\ TpFrame

TpNext == TpSend \/ TpReceive \/ TpServerFrame \/ TpServerClose

\* ------------------------------- mcp/mod.rs McpClient::connect / connect_http
\* protocol.rs 4-12 JsonRpcRequest, and the JSON serde makes of it: `params`
\* is left out when None, `id` is not, so a request without id is written
\* with the member "id": null
Msg(method, id) == [method |-> method, id |-> id]
ToValue(request) ==
    [method |-> request.method,
     id |-> IF request.id = None THEN "null" ELSE request.id[1]]
\* a JSON-RPC object that has no "id" member
WithoutId(method) == [method |-> method, id |-> "absent"]

\* the name the call registers under, and what the registry may hold before
ConnectName == "srv1"
Registries == { {}, {<<"srv1", "old">>}, {<<"srv2", "old">>} }

CnNoResult == [tag |-> "none", err |-> ""]
CnOk == [tag |-> "Ok", err |-> ""]
CnErr(e) == [tag |-> "Err", err |-> e]

\* lines 35-37 and 55-57: HashMap::insert replaces the entry of the name
Insert(registry, name, client) ==
    { e \in registry : e[1] # name } \cup { <<name, client>> }

CnIdle ==
    /\ cn_kind = "stdio"
    /\ cn_server = "any"
    /\ cn_pc = "returned"
    /\ cn_next_id = 1
    /\ cn_id = 0
    /\ cn_post_url = None
    /\ cn_inbox = <<>>
    /\ cn_closed = TRUE
    /\ cn_wire = {}
    /\ cn_posted = <<>>
    /\ cn_registry = {}
    /\ cn_registry0 = {}
    /\ cn_result = CnNoResult
    /\ cn_trace = <<>>
    /\ cn_frames = MaxFrames
    /\ cn_endpoint = FALSE

CnInit ==
    /\ cn_kind \in {"stdio", "sse"}
    /\ cn_server \in {"conforming", "any"}
    /\ cn_pc = "new"
    /\ cn_next_id = 1
    /\ cn_id = 0
    /\ cn_post_url = None
    /\ cn_inbox = <<>>
    /\ cn_closed = FALSE
    /\ cn_wire = {}
    /\ cn_posted = <<>>
    /\ cn_registry \in Registries
    /\ cn_registry0 = cn_registry
    /\ cn_result = CnNoResult
    /\ cn_trace = <<>>
    /\ cn_frames = 0
    /\ cn_endpoint = FALSE

\* `?` on lines 24, 31, 44, 51: the call returns the failure
FailConnect(e) ==
    /\ cn_pc' = "returned"
    /\ cn_result' = CnErr(e)
    /\ UNCHANGED cn_registry

\* whether a message handed to transport.send gets to the server
Deliveries ==
    IF cn_closed THEN {FALSE} ELSE IF cn_server = "conforming" THEN {TRUE} ELSE BOOLEAN

\* lines 24-29 and 44-49: the transport and the client are built
ConnNew ==
    /\ cn_pc = "new"
    /\ \/ /\ cn_server = "any"
          /\ FailConnect("transport")
       \/ /\ cn_pc' = "send_init"
          /\ UNCHANGED <<cn_result, cn_registry>>
    /\ UNCHANGED <<cn_kind, cn_server, cn_next_id, cn_id, cn_post_url, cn_inbox, cn_closed,
                   cn_wire, cn_posted, cn_registry0, cn_trace, cn_frames, cn_endpoint>>
    /\ CnFrame

\* line 76 with 92-111: send_request("initialize") allocates the id and sends
ConnSendInit ==
    /\ cn_pc = "send_init"
    /\ cn_id' = cn_next_id
    /\ cn_next_id' = cn_next_id + 1
    /\ \E delivered \in Deliveries :
        LET out == TransportSend(cn_kind, cn_post_url, cn_posted,
                                 ToValue(Msg("initialize", Some(cn_next_id))), delivered)
        IN  /\ cn_posted' = out.posted
            /\ IF out.tag = "Ok"
               THEN /\ cn_pc' = "recv_init"
                    /\ cn_wire' = cn_wire \cup {cn_next_id}
                    /\ cn_trace' = Append(cn_trace, "send_init")
                    /\ UNCHANGED <<cn_result, cn_registry>>
               ELSE /\ FailConnect(out.tag)
                    /\ UNCHANGED <<cn_wire, cn_trace>>
    /\ UNCHANGED <<cn_kind, cn_server, cn_post_url, cn_inbox, cn_closed,
                   cn_registry0, cn_frames, cn_endpoint>>
    /\ CnFrame

\* line 76 with 113-131: one round of send_request's receive loop
ConnReceive ==
    /\ cn_pc = "recv_init"
    /\ LET out == TransportReceive(cn_kind, cn_inbox, cn_post_url, cn_closed)
       IN  /\ out.tag # "Pending"
           /\ cn_inbox' = out.inbox
           /\ cn_post_url' = out.post_url
           /\ IF out.tag = "Some"
              THEN IF ParsesAsResponse(out.frame) /\ Correlates(out.frame, cn_id)
                   THEN IF RpcOutcome(out.frame) = "RpcErr"
                        THEN FailConnect("RpcErr") /\ UNCHANGED cn_trace
                        ELSE /\ cn_pc' = "notify"
                             /\ cn_trace' = Append(cn_trace, "init_reply")
                             /\ UNCHANGED <<cn_result, cn_registry>>
                   ELSE /\ cn_trace' = Append(cn_trace, "skip")
                        /\ UNCHANGED <<cn_pc, cn_result, cn_registry>>
              ELSE /\ FailConnect(IF out.tag = "None" THEN "Closed" ELSE out.tag)
                   /\ UNCHANGED cn_trace
    /\ UNCHANGED <<cn_kind, cn_server, cn_next_id, cn_id, cn_closed, cn_wire, cn_posted,
                   cn_registry0, cn_frames, cn_endpoint>>
    /\ CnFrame

\* line 77 with 134-146: send_notification sends a request without id and
\* awaits nothing
ConnNotify ==
    /\ cn_pc = "notify"
    /\ \E delivered \in Deliveries :
        LET out == TransportSend(cn_kind, cn_post_url, cn_posted,
                                 ToValue(Msg("notifications/initialized", None)), delivered)
        IN  /\ cn_posted' = out.posted
            /\ IF out.tag = "Ok"
               THEN /\ cn_pc' = "register"
                    /\ cn_trace' = Append(cn_trace, "notified")
                    /\ UNCHANGED <<cn_result, cn_registry>>
               ELSE /\ FailConnect(out.tag)
                    /\ UNCHANGED cn_trace
    /\ UNCHANGED <<cn_kind, cn_server, cn_next_id, cn_id, cn_post_url, cn_inbox, cn_closed,
                   cn_wire, cn_registry0, cn_frames, cn_endpoint>>
    /\ CnFrame

\* lines 33-40 and 53-60: the client is put in the registry and returned
ConnRegister ==
    /\ cn_pc = "register"
    /\ cn_registry' = Insert(cn_registry, ConnectName, "new")
    /\ cn_trace' = Append(cn_trace, "registered")
    /\ cn_pc' = "returned"
    /\ cn_result' = CnOk
    /\ UNCHANGED <<cn_kind, cn_server, cn_next_id, cn_id, cn_post_url, cn_inbox, cn_closed,
                   cn_wire, cn_posted, cn_registry0, cn_frames, cn_endpoint>>
    /\ CnFrame

\* the server sends, as the first event of its stream, the endpoint event
CnServerEndpoint ==
    /\ cn_kind = "sse"
    /\ ~cn_closed /\ ~cn_endpoint /\ cn_frames = 0
    /\ cn_endpoint' = TRUE
    /\ cn_inbox' = Append(cn_inbox, Frame("endpoint", None, FALSE))
    /\ UNCHANGED <<cn_kind, cn_server, cn_pc, cn_next_id, cn_id, cn_post_url, cn_closed,
                   cn_wire, cn_posted, cn_registry, cn_registry0, cn_result, cn_trace,
                   cn_frames>>
    /\ CnFrame

\* the server answers a request it has got: a conforming one with a result
CnServerReply ==
    /\ ~cn_closed
    /\ \E k \in cn_wire :
       \E error, res \in (IF cn_server = "conforming" THEN {FALSE} ELSE BOOLEAN) :
         /\ cn_inbox' = Append(cn_inbox, Reply(k, error, res \/ cn_server = "conforming"))
         /\ cn_wire' = cn_wire \ {k}
    /\ UNCHANGED <<cn_kind, cn_server, cn_pc, cn_next_id, cn_id, cn_post_url, cn_closed,
                   cn_posted, cn_registry, cn_registry0, cn_result, cn_trace, cn_frames,
                   cn_endpoint>>
    /\ CnFrame

\* the server writes a frame that answers nothing: a conforming one only
\* notifications, and on the event stream only after its endpoint event
CnServerFrame ==
    /\ ~cn_closed
    /\ cn_frames < MaxFrames
    /\ cn_frames' = cn_frames + 1
    /\ \E f \in TransportFrames(cn_kind) :
         /\ f.kind # "response"
         /\ cn_server = "conforming" =>
              /\ f.kind = "notification"
              /\ cn_kind = "sse" => cn_endpoint
         /\ cn_inbox' = Append(cn_inbox, f)
    /\ UNCHANGED <<cn_kind, cn_server, cn_pc, cn_next_id, cn_id, cn_post_url, cn_closed,
                   cn_wire, cn_posted, cn_registry, cn_registry0, cn_result, cn_trace,
                   cn_endpoint>>
    /\ CnFrame

\* a server that is not conforming exits, or ends the event stream
CnServerClose ==
    /\ cn_server = "any"
    /\ ~cn_closed
    /\ cn_closed' = TRUE
    /\ UNCHANGED <<cn_kind, cn_server, cn_pc, cn_next_id, cn_id, cn_post_url, cn_inbox,
                   cn_wire, cn_posted, cn_registry, cn_registry0, cn_result, cn_trace,
                   cn_frames, cn_endpoint>>
    /\ CnFrame

CnClient == ConnNew \/ ConnSendInit \/ ConnReceive \/ ConnNotify \/ ConnRegister

CnNext ==
    \/ ConnNew
    \/ ConnSendInit
    \/ ConnReceive
    \/ ConnNotify
    \/ ConnRegister
    \/ CnServerEndpoint
    \/ CnServerReply
    \/ CnServerFrame
    \/ CnServerClose

\* ------------------------------------------------------ commands/settings.rs
\* a ProviderConfig: its id, and a name that tells two configs of one id apart
ProviderConfig(id, name) == [id |-> id, name |-> name]

\* providers/mod.rs 37-46
ollama_default == ProviderConfig("ollama-default", "Ollama (Local)")

ProviderIds == {"ollama-default", "p1"}
ProviderConfigs == { ollama_default, ProviderConfig("ollama-default", "edited"),
                     ProviderConfig("p1", "P1") }

\* the fields of Settings the provider commands read or write
Settings(providers, active_provider_id) ==
    [providers |-> providers, active_provider_id |-> active_provider_id]

RECURSIVE ProviderLists(_)
ProviderLists(n) ==
    IF n = 0 THEN { <<>> }
    ELSE ProviderLists(n - 1)
            \cup { Append(l, c) : l \in { l \in ProviderLists(n - 1) : Len(l) = n - 1 },
                                  c \in ProviderConfigs }

\* the Settings values a caller may hand to settings_set
SettingsValues ==
    { Settings(l, a) : l \in ProviderLists(MaxProviders),
                       a \in {None} \cup { Some(i) : i \in ProviderIds } }

HasId(providers, id) == \E i \in 1..Len(providers) : providers[i].id = id

RetainNot(providers, id) == SelectSeq(providers, LAMBDA c : c.id # id)

Position(providers, id) ==
    CHOOSE i \in 1..Len(providers) :
        providers[i].id = id /\ \A j \in 1..(i - 1) : providers[j].id # id

\* lines 52-78 settings_get: the Settings it returns for a file
SettingsGet(file) ==
    IF file = None
    THEN Settings(<<ollama_default>>, Some("ollama-default"))
    ELSE IF file[1].providers = <<>>
         THEN Settings(<<ollama_default>>, Some("ollama-default"))
         ELSE file[1]

\* a command's effect: the file afterwards and the Result
Done(file, tag, value) == [file |-> file, tag |-> tag, value |-> value]

\* lines 80-86
settings_set(settings) == Done(Some(settings), "Ok", settings)

\* lines 88-100
provider_add(file, config) ==
    LET settings == SettingsGet(file) IN
    IF HasId(settings.providers, config.id)
    THEN Done(file, "Err", "already exists")
    ELSE LET new == Settings(Append(settings.providers, config), settings.active_provider_id)
         IN  Done(Some(new), "Ok", new.providers)

\* lines 102-113
provider_update(file, config) ==
    LET settings == SettingsGet(file) IN
    IF HasId(settings.providers, config.id)
    THEN LET new == Settings([settings.providers EXCEPT
                                 ![Position(settings.providers, config.id)] = config],
                             settings.active_provider_id)
         IN  Done(Some(new), "Ok", new.providers)
    ELSE Done(file, "Err", "not found")

\* lines 115-133
provider_delete(file, id) ==
    LET settings == SettingsGet(file) IN
    IF id = "ollama-default"
    THEN Done(file, "Err", "Cannot delete the default Ollama provider")
    ELSE LET new == Settings(RetainNot(settings.providers, id),
                             IF settings.active_provider_id = Some(id)
                             THEN Some("ollama-default")
                             ELSE settings.active_provider_id)
         IN  Done(Some(new), "Ok", new.providers)

\* lines 135-145
provider_set_active(file, id) ==
    LET settings == SettingsGet(file) IN
    IF ~HasId(settings.providers, id)
    THEN Done(file, "Err", "not found")
    ELSE LET new == Settings(settings.providers, Some(id))
         IN  Done(Some(new), "Ok", new)

\* no settings.json yet
SettingsInit == sf_file = None /\ sf_log = <<>>

SettingsIdle == SettingsInit

\* one command has run: the file is replaced and the call logged
Command(op, arg, out) ==
    /\ sf_file' = out.file
    /\ sf_log' = Append(sf_log, [op |-> op, arg |-> arg, before |-> sf_file,
                                 after |-> out.file, tag |-> out.tag])

SettingsSet ==
    /\ Len(sf_log) < MaxCommands
    /\ \E v \in SettingsValues : Command("settings_set", v, settings_set(v))
    /\ SettingsFrame

ProviderAdd ==
    /\ Len(sf_log) < MaxCommands
    /\ \E c \in ProviderConfigs : Command("provider_add", c, provider_add(sf_file, c))
    /\ SettingsFrame

ProviderUpdate ==
    /\ Len(sf_log) < MaxCommands
    /\ \E c \in ProviderConfigs : Command("provider_update", c, provider_update(sf_file, c))
    /\ SettingsFrame

ProviderDelete ==
    /\ Len(sf_log) < MaxCommands
    /\ \E id \in ProviderIds : Command("provider_delete", id, provider_delete(sf_file, id))
    /\ SettingsFrame

ProviderSetActive ==
    /\ Len(sf_log) < MaxCommands
    /\ \E id \in ProviderIds :
         Command("provider_set_active", id, provider_set_active(sf_file, id))
    /\ SettingsFrame

SettingsNext ==
    \/ SettingsSet
    \/ ProviderAdd
    \/ ProviderUpdate
    \/ ProviderDelete
    \/ ProviderSetActive

\* ------------------------------------ providers/google.rs GeminiStream parser
\* a part of a candidate's content (google.rs 33-47)
TextPart(text) == [kind |-> "text", text |-> text]
FunctionCallPart(name, args) == [kind |-> "functionCall", name |-> name, args |-> args]
InlineDataPart == [kind |-> "inlineData"]

GeminiParts ==
    { TextPart("h"), InlineDataPart }
      \cup { FunctionCallPart(n, a) : n \in {"f", "g"}, a \in {"a", "b"} }

\* a candidate: content absent (None) or its parts
Candidate(content) == [content |-> content]

\* a data payload: a GeminiStreamResponse, or text that does not parse as one
GeminiResponse(candidates, usage) ==
    [kind |-> "response", candidates |-> candidates, usage_metadata |-> usage]
GeminiBadLine == [kind |-> "bad"]

PartLists ==
    { <<>> } \cup { <<p>> : p \in GeminiParts }
      \cup { <<p, q>> : p, q \in { FunctionCallPart("f", "a"), FunctionCallPart("f", "b"),
                                   FunctionCallPart("g", "a"), TextPart("h") } }

GeminiDataLines ==
    { GeminiResponse(Some(<<Candidate(Some(ps))>>), u) : ps \in PartLists, u \in BOOLEAN }
      \cup { GeminiResponse(Some(<<Candidate(None)>>), FALSE),
             GeminiResponse(Some(<<Candidate(Some(<<TextPart("h")>>)),
                                   Candidate(Some(<<FunctionCallPart("g", "b")>>))>>), FALSE),
             GeminiResponse(Some(<<>>), TRUE),
             GeminiResponse(None, TRUE),
             GeminiBadLine }

\* google.rs 284-295: the id is the function's name
FunctionCallEvent(part) ==
    [type |-> "ToolCall",
     val |-> [id |-> part.name, type |-> "function",
              function |-> [name |-> part.name, arguments |-> part.args]]]

RECURSIVE PushParts(_, _)
\* google.rs 278-298: for part in &c.parts
PushParts(q, parts) ==
    IF parts = <<>> THEN q
    ELSE LET part == Head(parts)
             q1 == CASE part.kind = "text" ->
                          Append(q, [type |-> "Content", val |-> part.text])
                      [] part.kind = "functionCall" -> Append(q, FunctionCallEvent(part))
                      [] OTHER -> q
         IN  PushParts(q1, Tail(parts))

\* google.rs 273-311 process_data_line: the queue afterwards
GeminiProcessDataLine(q, data) ==
    IF data.kind # "response" THEN q
    ELSE LET q1 == IF data.candidates # None /\ data.candidates[1] # <<>>
                      /\ data.candidates[1][1].content # None
                   THEN PushParts(q, data.candidates[1][1].content[1])
                   ELSE q
         IN  IF data.usage_metadata THEN Append(q1, [type |-> "Usage", val |-> <<>>])
             ELSE q1

GmInit ==
    /\ gm_lines = <<>>
    /\ gm_queue = <<>>
    /\ gm_yielded = <<>>

GmIdle == GmInit

\* google.rs 334-338: the next data line of the response body is processed
GmDataLine ==
    /\ Len(gm_lines) < MaxLines
    /\ \E data \in GeminiDataLines :
         /\ gm_lines' = Append(gm_lines, data)
         /\ gm_queue' = GeminiProcessDataLine(gm_queue, data)
    /\ UNCHANGED gm_yielded
    /\ GmFrame

\* google.rs 319-321, 341-343: poll_next returns the front of the queue
GmPollNext ==
    /\ gm_queue # <<>>
    /\ gm_yielded' = Append(gm_yielded, Head(gm_queue))
    /\ gm_queue' = Tail(gm_queue)
    /\ UNCHANGED gm_lines
    /\ GmFrame

GmNext == GmDataLine \/ GmPollNext

\* -------------------------------------- providers/*.rs LLMProvider::stream_chat
Adapters == {"ollama", "openai", "anthropic", "google"}

ScMessage(role, content) == [role |-> role, content |-> content]

ScMessageLists ==
    { <<>>, <<ScMessage("user", <<"q">>)>>,
      <<ScMessage("system", <<"s">>), ScMessage("user", <<"q">>)>> }

ScTools == { None, Some(<<>>), Some(<<"t">>) }

\* ollama.rs 59: the instruction begins with a newline, which trim() removes
instruction == <<"\n", "You have access to tools/functions.">>
Trim(text) == IF text # <<>> /\ Head(text) = "\n" THEN Tail(text) ELSE text

\* ollama.rs 48-49
HasTools(tools) == tools # None /\ tools[1] # <<>>

\* ollama.rs 61-83: the instruction is appended to a leading system message,
\* or put in a system message of its own before the others
WithInstruction(msgs) ==
    IF msgs # <<>>
    THEN IF msgs[1].role = "system"
         THEN [msgs EXCEPT ![1].content = @ \o instruction]
         ELSE <<ScMessage("system", Trim(instruction))>> \o msgs
    ELSE <<ScMessage("system", Trim(instruction))>>

\* an HTTP request: its adapter, the messages its body is built from, and
\* the tools field of the body (None when the body has none)
Request(adapter, msgs, tools) ==
    [adapter |-> adapter, messages |-> msgs, tools |-> tools]

\* ollama.rs 48-88: the first payload
OllamaPayload(msgs, tools) ==
    IF HasTools(tools) THEN Request("ollama", WithInstruction(msgs), tools)
    ELSE Request("ollama", msgs, None)

\* the retry keeps the tool instruction and the tools
OllamaRetryWithTools(msgs) ==
    Request("ollama", WithInstruction(msgs), Some(<<"t">>))

\* ollama.rs 116-120: the retry payload is built from the caller's messages
OllamaRetryPayload(msgs) == Request("ollama", msgs, None)

\* what ends stream_chat before any request: ollama.rs 46; openai.rs 91;
\* anthropic.rs 80-81, 87; google.rs 126-127
FailsBeforeRequest(adapter, key, build_ok) ==
    CASE adapter = "ollama" -> ~build_ok
      [] adapter = "openai" -> key = "bad"
      [] adapter = "anthropic" -> key \in {"none", "bad"}
      [] OTHER -> key = "none"

\* ollama.rs 179-187 new_with_warning / 171-177 new: the queue of a new stream
Warning == [type |-> "Content", val |-> <<"**Note:** no MCP tools">>]

ScNoResult == [tag |-> "none", queue |-> <<>>]
ScOk(q) == [tag |-> "Ok", queue |-> q]
ScErr == [tag |-> "Err", queue |-> <<>>]

\* what a request meets: a transport error, a success status, or a failure
\* status whose body does or does not contain "does not support tools"
HttpOutcomes == {"transport error", "success", "no tools", "failure"}

ScIdle ==
    /\ sc_adapter = "ollama"
    /\ sc_messages = <<>>
    /\ sc_tools = None
    /\ sc_key = "ok"
    /\ sc_pc = "returned"
    /\ sc_requests = <<>>
    /\ sc_result = ScNoResult
    /\ sc_responses = <<>>

ScInit ==
    /\ sc_adapter \in Adapters
    /\ sc_messages \in ScMessageLists
    /\ sc_tools \in ScTools
    /\ sc_key \in {"none", "bad", "ok"}
    /\ sc_pc = "start"
    /\ sc_requests = <<>>
    /\ sc_result = ScNoResult
    /\ sc_responses = <<>>

ScReturn(r) == sc_pc' = "returned" /\ sc_result' = r

\* up to the first send(): ollama.rs 42-109, openai.rs 78-137,
\* anthropic.rs 80-116, google.rs 126-160
ScStart ==
    /\ sc_pc = "start"
    /\ \E build_ok \in BOOLEAN :
         IF FailsBeforeRequest(sc_adapter, sc_key, build_ok)
         THEN ScReturn(ScErr) /\ UNCHANGED sc_requests
         ELSE /\ sc_requests' = Append(sc_requests,
                    IF sc_adapter = "ollama" THEN OllamaPayload(sc_messages, sc_tools)
                    ELSE Request(sc_adapter, sc_messages, sc_tools))
              /\ sc_pc' = "first"
              /\ UNCHANGED sc_result
    /\ UNCHANGED <<sc_adapter, sc_messages, sc_tools, sc_key, sc_responses>>
    /\ ScFrame

\* the first request completes: ollama.rs 109-160, openai.rs 137-146,
\* anthropic.rs 116-125, google.rs 160-169
ScFirstResponse ==
    /\ sc_pc = "first"
    /\ \E http \in HttpOutcomes :
         /\ sc_responses' = Append(sc_responses, http)
         /\ CASE http = "success" -> ScReturn(ScOk(<<>>)) /\ UNCHANGED sc_requests
             [] http = "no tools" /\ sc_adapter = "ollama" /\ HasTools(sc_tools) ->
                  /\ sc_requests' = Append(sc_requests, OllamaRetryPayload(sc_messages))
                  /\ sc_pc' = "retry"
                  /\ UNCHANGED sc_result
             [] OTHER -> ScReturn(ScErr) /\ UNCHANGED sc_requests
    /\ UNCHANGED <<sc_adapter, sc_messages, sc_tools, sc_key>>
    /\ ScFrame

\* ollama.rs 140-153: the retry completes
ScRetryResponse ==
    /\ sc_pc = "retry"
    /\ \E http \in HttpOutcomes :
         /\ sc_responses' = Append(sc_responses, http)
         /\ IF http = "success" THEN ScReturn(ScOk(<<Warning>>)) ELSE ScReturn(ScErr)
    /\ UNCHANGED <<sc_adapter, sc_messages, sc_tools, sc_key, sc_requests>>
    /\ ScFrame

ScNext == ScStart \/ ScFirstResponse \/ ScRetryResponse

\* -------------------------------- providers/anthropic.rs AnthropicStream parser
\* a data payload that deserializes as AnthropicStreamEvent (anthropic.rs
\* 17-47): its type and the optional fields the parser reads; "bad" is a
\* payload that does not deserialize
AnEvent(type, block, delta, usage) ==
    [type |-> type, content_block |-> block, delta |-> delta, usage |-> usage]
ContentBlock(type, id, name) == [type |-> type, id |-> id, name |-> name]
AnDelta(text, partial_json) == [text |-> text, partial_json |-> partial_json]
AnUsage(input, output) == [input_tokens |-> input, output_tokens |-> output]
AnBad == [type |-> "bad"]

ToolUseStart(id, name) ==
    AnEvent("content_block_start", Some(ContentBlock("tool_use", Some(id), Some(name))),
            None, None)
PartialJson(p) == AnEvent("content_block_delta", None, Some(AnDelta(None, Some(p))), None)

AnthropicDataLines ==
    { AnEvent("message_start", None, None, Some(AnUsage(Some(3), None))),
      ToolUseStart("t1", "search"), ToolUseStart("t2", "calc"),
      AnEvent("content_block_start", Some(ContentBlock("text", None, None)), None, None),
      AnEvent("content_block_delta", None, Some(AnDelta(Some("h"), None)), None),
      PartialJson("p"), PartialJson("q"),
      AnEvent("content_block_stop", None, None, None),
      AnEvent("message_delta", None, None, Some(AnUsage(None, Some(5)))),
      AnEvent("message_stop", None, None, None),
      AnBad }

\* the parser's fields
AnState(q, id, name, args, it, ot) ==
    [queue |-> q, current_tool_id |-> id, current_tool_name |-> name,
     current_tool_args |-> args, input_tokens |-> it, output_tokens |-> ot]

\* a content_block_stop emits the call with empty arguments
BlockStopDroppingArgs(st) ==
    IF st.current_tool_id # None
    THEN [st EXCEPT !.queue = Append(@,
                [type |-> "ToolCall",
                 val |-> [id |-> st.current_tool_id[1], type |-> "function",
                          function |-> [name |-> UnwrapOr(st.current_tool_name, ""),
                                        arguments |-> ""]]]),
                    !.current_tool_id = None, !.current_tool_name = None,
                    !.current_tool_args = ""]
    ELSE st

\* anthropic.rs 298-322 "content_block_stop"
BlockStop(st) ==
    IF st.current_tool_id # None
    THEN [st EXCEPT !.queue = Append(@,
                [type |-> "ToolCall",
                 val |-> [id |-> st.current_tool_id[1], type |-> "function",
                          function |-> [name |-> UnwrapOr(st.current_tool_name, ""),
                                        arguments |-> st.current_tool_args]]]),
                    !.current_tool_id = None, !.current_tool_name = None,
                    !.current_tool_args = ""]
    ELSE st

\* anthropic.rs 269-341 process_data_line
AnthropicProcessDataLine(st, ev) ==
    CASE ev.type = "message_start" ->
            IF ev.usage # None /\ ev.usage[1].input_tokens # None
            THEN [st EXCEPT !.input_tokens = @ + ev.usage[1].input_tokens[1]] ELSE st
      [] ev.type = "content_block_start" ->
            IF ev.content_block # None /\ ev.content_block[1].type = "tool_use"
            THEN [st EXCEPT !.current_tool_id = ev.content_block[1].id,
                            !.current_tool_name = ev.content_block[1].name,
                            !.current_tool_args = ""]
            ELSE st
      [] ev.type = "content_block_delta" ->
            IF ev.delta = None THEN st
            ELSE LET d == ev.delta[1]
                     q1 == IF d.text # None
                           THEN Append(st.queue, [type |-> "Content", val |-> d.text[1]])
                           ELSE st.queue
                     a1 == IF d.partial_json # None
                           THEN st.current_tool_args \o d.partial_json[1]
                           ELSE st.current_tool_args
                 IN  [st EXCEPT !.queue = q1, !.current_tool_args = a1]
      [] ev.type = "content_block_stop" -> BlockStop(st)
      [] ev.type = "message_delta" ->
            IF ev.usage # None /\ ev.usage[1].output_tokens # None
            THEN [st EXCEPT !.output_tokens = @ + ev.usage[1].output_tokens[1]] ELSE st
      [] ev.type = "message_stop" ->
            [st EXCEPT !.queue = Append(@,
                [type |-> "Usage",
                 val |-> [prompt_tokens |-> Some(st.input_tokens),
                          completion_tokens |-> Some(st.output_tokens),
                          total_tokens |-> Some(st.input_tokens + st.output_tokens)]])]
      [] OTHER -> st

\* anthropic.rs 256-267 new
AnInit ==
    /\ an_lines = <<>>
    /\ an_queue = <<>>
    /\ current_tool_id = None
    /\ current_tool_name = None
    /\ current_tool_args = ""
    /\ input_tokens = 0
    /\ output_tokens = 0

AnIdle == AnInit

\* anthropic.rs 363-367: the next data line of the response body is processed
AnDataLine ==
    /\ Len(an_lines) < MaxBlockLines
    /\ \E ev \in AnthropicDataLines :
         LET st == AnthropicProcessDataLine(
                      AnState(an_queue, current_tool_id, current_tool_name,
                              current_tool_args, input_tokens, output_tokens), ev)
         IN  /\ an_lines' = Append(an_lines, ev)
             /\ an_queue' = st.queue
             /\ current_tool_id' = st.current_tool_id
             /\ current_tool_name' = st.current_tool_name
             /\ current_tool_args' = st.current_tool_args
             /\ input_tokens' = st.input_tokens
             /\ output_tokens' = st.output_tokens
    /\ AnFrame

AnNext == AnDataLine

\* ------------------------------ providers/openai.rs parse_groq_xml_tool_call
\* A failed_generation is a sequence of pieces of text: the markers
\* "<function=" and "</function>", the characters ">", "{", "}" and " ", the
\* name text "ls", and member text that holds none of those characters:
\*   "k"   "p":"/"           (a member list)
\*   "k'"  "q":"   and  "'"  the closing quote: around ">" or "</function>"
\*                           they make a member whose string value is that text
\*   "!"   text that is no member list
GroqNames == { <<"ls">>, <<" ", "ls">>, <<"ls", " ">> }

GroqArgs ==
    { <<"{", "k", "}">>, <<"{", "}">>, <<"{", "!", "}">>, <<"{", "k">>,
      <<"{", "k'", "</function>", "'", "}">>, <<"{", "k'", ">", "'", "}">> }

\* serde_json::from_str::<Value>(json_str).is_ok(), for text that begins "{"
IsJson(text) ==
    /\ Len(text) >= 2 /\ text[1] = "{" /\ text[Len(text)] = "}"
    /\ SubSeq(text, 2, Len(text) - 1) \in
          { <<>>, <<"k">>, <<"k'", "</function>", "'">>, <<"k'", ">", "'">> }

FailedGeneration(name, args, text) == [name |-> name, args |-> args, text |-> text]

\* NAME{JSON_ARGS} between the markers, with or without the ">" that closes
\* the opening tag, text before it, and the end marker
FailedGenerations ==
    { FailedGeneration(n, a, pre \o <<"<function=">> \o n \o a \o gt \o end) :
        n \in GroqNames, a \in GroqArgs, pre \in { <<>>, <<"!">> },
        gt \in { <<">">>, <<>> }, end \in { <<"</function>">>, <<>> } }

\* str::find: the position of the first piece equal to c, 0 if there is none
Find(text, c) ==
    IF \E k \in 1..Len(text) : text[k] = c
    THEN CHOOSE k \in 1..Len(text) : text[k] = c /\ \A j \in 1..(k - 1) : text[j] # c
    ELSE 0

RECURSIVE TrimEndMatches(_, _)
TrimEndMatches(text, c) ==
    IF text # <<>> /\ text[Len(text)] = c
    THEN TrimEndMatches(SubSeq(text, 1, Len(text) - 1), c) ELSE text

RECURSIVE TrimStartMatches(_, _)
TrimStartMatches(text, c) ==
    IF text # <<>> /\ Head(text) = c THEN TrimStartMatches(Tail(text), c) ELSE text

\* str::trim
TrimBlanks(text) == TrimStartMatches(TrimEndMatches(text, " "), " ")

\* openai.rs 297-336 parse_groq_xml_tool_call; uuid is the first group of a
\* fresh UUID
parse_groq_xml_tool_call(input, uuid) ==
    LET start == Find(input, "<function=")
        end == Find(input, "</function>")
    IN  IF start = 0 \/ end = 0 \/ end <= start THEN None
        ELSE LET inner == TrimEndMatches(SubSeq(input, start + 1, end - 1), ">")
                 json_start == Find(inner, "{")
                 json_str == SubSeq(inner, json_start, Len(inner))
             IN  IF json_start = 0 \/ ~IsJson(json_str) THEN None
                 ELSE Some([id |-> <<"groq_call_", uuid>>, type |-> "function",
                            function |-> [name |-> TrimBlanks(SubSeq(inner, 1, json_start - 1)),
                                          arguments |-> json_str]])

GqIdle ==
    /\ gq_gen = FailedGeneration(<<>>, <<>>, <<>>)
    /\ gq_done = TRUE
    /\ gq_queue = <<>>

GqInit ==
    /\ gq_gen \in FailedGenerations
    /\ gq_done = FALSE
    /\ gq_queue = <<>>

\* openai.rs 212-225, and 227 for an error object, which is no
\* OpenAIStreamChunk: process_data_line on the error chunk
GqProcessDataLine ==
    /\ ~gq_done
    /\ gq_done' = TRUE
    /\ \E uuid \in {"1f0c", "9ab2"} :
         LET tool_call == parse_groq_xml_tool_call(gq_gen.text, uuid)
         IN  gq_queue' = IF tool_call # None
                         THEN <<[type |-> "ToolCall", val |-> tool_call[1]]>> ELSE <<>>
    /\ UNCHANGED gq_gen
    /\ GqFrame

GqNext == GqProcessDataLine

\* ------------------------------------- providers/ollama.rs process_line by line
\* lines of an NDJSON body: records, an empty line, and text that is no record
OllamaLines ==
    { <<"{", "a", "}">>, <<"{", "a", "!">>, <<"{", "!">>, <<>>,
      <<"{", "a">>, <<"M", "a", "}">>, <<"#">> }

LnIdle ==
    /\ ln_adapter = "ollama"
    /\ ol_lines = <<>>
    /\ ol_queue = <<>>

LnInit ==
    /\ ln_adapter \in {"ollama", "openai", "anthropic"}
    /\ ol_lines = <<>>
    /\ ol_queue = <<>>

\* ollama.rs 243-248: the next line of the body is processed
OlLine ==
    /\ Len(ol_lines) < MaxLines
    /\ \E line \in OllamaLines :
         /\ ol_lines' = Append(ol_lines, line)
         /\ ol_queue' = ol_queue \o OllamaProcessLine(line)
    /\ UNCHANGED ln_adapter
    /\ LnFrame

\* the parser of the adapter in use is given the next line, up to MaxLines
\* lines each
LnNext ==
    \/ ln_adapter = "ollama" /\ OlLine
    \/ ln_adapter = "openai" /\ ProcessDataLine
    \/ ln_adapter = "anthropic" /\ Len(an_lines) < MaxLines /\ AnDataLine

\* ---------------------------------------------------------- specifications
\* run_conversation with any of the adapters, and the setting of its flag
McpIdle == McpInit /\ transport_kind = "stdio"

\* ------------------------------------------- commands/monitoring.rs 47-105
\* The commands are async and run on a multi-threaded runtime: the steps of
\* different invocations, and of the spawned tasks, interleave.
StartInvocations == 1..MaxStarts

\* no invocation yet, no task, the flag as constructed (line 48)
MnIdle ==
    /\ MONITORING_ACTIVE = FALSE
    /\ mn_pc = [i \in StartInvocations |-> "returned"]
    /\ mn_task = [i \in StartInvocations |-> "none"]
    /\ mn_stops = MaxStops

MnInit ==
    /\ MONITORING_ACTIVE = FALSE
    /\ mn_pc = [i \in StartInvocations |-> "called"]
    /\ mn_task = [i \in StartInvocations |-> "none"]
    /\ mn_stops = 0

\* lines 58-60: the flag is loaded; set, the command returns Ok(())
start_system_monitoring_load ==
    /\ \E i \in StartInvocations :
         /\ mn_pc[i] = "called"
         /\ mn_pc' = [mn_pc EXCEPT ![i] = IF MONITORING_ACTIVE THEN "returned" ELSE "store"]
    /\ UNCHANGED <<MONITORING_ACTIVE, mn_task, mn_stops>>
    /\ MnFrame

\* line 62: the flag is stored true
start_system_monitoring_store ==
    /\ \E i \in StartInvocations :
         /\ mn_pc[i] = "store"
         /\ mn_pc' = [mn_pc EXCEPT ![i] = "spawn"]
    /\ MONITORING_ACTIVE' = TRUE
    /\ UNCHANGED <<mn_task, mn_stops>>
    /\ MnFrame

\* lines 66-96: tokio::spawn of the loop task, then Ok(())
start_system_monitoring_spawn ==
    /\ \E i \in StartInvocations :
         /\ mn_pc[i] = "spawn"
         /\ mn_pc' = [mn_pc EXCEPT ![i] = "returned"]
         /\ mn_task' = [mn_task EXCEPT ![i] = "while"]
    /\ UNCHANGED <<MONITORING_ACTIVE, mn_stops>>
    /\ MnFrame

\* line 70: the loop condition; clear, the task ends (line 92)
MonitoringLoopTest ==
    /\ \E i \in StartInvocations :
         /\ mn_task[i] = "while"
         /\ mn_task' = [mn_task EXCEPT ![i] = IF MONITORING_ACTIVE THEN "body" ELSE "ended"]
    /\ UNCHANGED <<MONITORING_ACTIVE, mn_pc, mn_stops>>
    /\ MnFrame

\* lines 71-90: one tick, the metrics collected and emitted
MonitoringLoopBody ==
    /\ \E i \in StartInvocations :
         /\ mn_task[i] = "body"
         /\ mn_task' = [mn_task EXCEPT ![i] = "while"]
    /\ UNCHANGED <<MONITORING_ACTIVE, mn_pc, mn_stops>>
    /\ MnFrame

\* lines 101-105
stop_system_monitoring ==
    /\ mn_stops < MaxStops
    /\ mn_stops' = mn_stops + 1
    /\ MONITORING_ACTIVE' = FALSE
    /\ UNCHANGED <<mn_pc, mn_task>>
    /\ MnFrame

MnNext ==
    \/ start_system_monitoring_load
    \/ start_system_monitoring_store
    \/ start_system_monitoring_spawn
    \/ MonitoringLoopTest
    \/ MonitoringLoopBody
    \/ stop_system_monitoring

Init ==
    /\ OrchInitWith(Providers) /\ ChatInit /\ McpIdle /\ OaiInit /\ StreamIdle
    /\ TruncIdle /\ TpIdle /\ CnIdle /\ SettingsIdle
    /\ GmIdle
    /\ ScIdle
    /\ AnIdle
    /\ GqIdle
    /\ LnIdle
    /\ MnIdle

Next == OrchNext

Spec == Init /\ [][Next]_vars

\* the chat_stream command and abort_chat
InitChat ==
    /\ OrchInitWith({"ollama"}) /\ ChatInit /\ McpIdle /\ OaiInit /\ StreamIdle
    /\ TruncIdle /\ TpIdle /\ CnIdle /\ SettingsIdle
    /\ GmIdle
    /\ ScIdle
    /\ AnIdle
    /\ GqIdle
    /\ LnIdle
    /\ MnIdle

SpecChat == InitChat /\ [][ChatNext]_vars

\* concurrent send_request calls on one MCP client, and its server
InitMcp ==
    /\ OrchInitWith({"ollama"}) /\ ChatInit /\ McpInit /\ OaiInit /\ StreamIdle
    /\ TruncIdle /\ TpIdle /\ CnIdle /\ SettingsIdle
    /\ GmIdle
    /\ ScIdle
    /\ AnIdle
    /\ GqIdle
    /\ LnIdle
    /\ MnIdle

SpecMcp == InitMcp /\ [][McpNext]_vars

\* the OpenAI-compatible parser fed the data payloads of one response
SpecOpenAI == InitChat /\ [][OaiNext]_vars

\* an adapter stream fed the bytes of one response body, in any chunks
InitStream ==
    /\ OrchInitWith({"ollama"}) /\ ChatInit /\ McpIdle /\ OaiInit /\ StreamInit
    /\ TruncIdle /\ TpIdle /\ CnIdle /\ SettingsIdle
    /\ GmIdle
    /\ ScIdle
    /\ AnIdle
    /\ GqIdle
    /\ LnIdle
    /\ MnIdle

SpecStream == InitStream /\ [][StreamNext]_vars

\* the content of a tool message built from a tool result's text
InitTrunc ==
    /\ OrchInitWith({"ollama"}) /\ ChatInit /\ McpIdle /\ OaiInit /\ StreamIdle
    /\ TruncInit /\ TpIdle /\ CnIdle /\ SettingsIdle
    /\ GmIdle
    /\ ScIdle
    /\ AnIdle
    /\ GqIdle
    /\ LnIdle
    /\ MnIdle

SpecTrunc == InitTrunc /\ [][TruncNext]_vars

\* one transport, fresh from `new`, with send and receive called in any order
InitTransport ==
    /\ OrchInitWith({"ollama"}) /\ ChatInit /\ McpIdle /\ OaiInit /\ StreamIdle
    /\ TruncIdle /\ TpInit /\ CnIdle /\ SettingsIdle
    /\ GmIdle
    /\ ScIdle
    /\ AnIdle
    /\ GqIdle
    /\ LnIdle
    /\ MnIdle

SpecTransport == InitTransport /\ [][TpNext]_vars

\* one connect or connect_http call and its server
InitConnect ==
    /\ OrchInitWith({"ollama"}) /\ ChatInit /\ McpIdle /\ OaiInit /\ StreamIdle
    /\ TruncIdle /\ TpIdle /\ CnInit /\ SettingsIdle
    /\ GmIdle
    /\ ScIdle
    /\ AnIdle
    /\ GqIdle
    /\ LnIdle
    /\ MnIdle

SpecConnect == InitConnect /\ [][CnNext]_vars

\* the same, where the task of the call is scheduled as long as it can step
\* and the server sends what it has to send
SpecConnectFair ==
    /\ InitConnect /\ [][CnNext]_vars
    /\ WF_vars(CnClient) /\ WF_vars(CnServerEndpoint) /\ WF_vars(CnServerReply)

\* the settings commands, in any order, on a file that does not exist at first
InitSettings ==
    /\ OrchInitWith({"ollama"}) /\ ChatInit /\ McpIdle /\ OaiInit /\ StreamIdle
    /\ TruncIdle /\ TpIdle /\ CnIdle /\ SettingsInit
    /\ GmIdle
    /\ ScIdle
    /\ AnIdle
    /\ GqIdle
    /\ LnIdle
    /\ MnIdle

SpecSettings == InitSettings /\ [][SettingsNext]_vars

InitGemini ==
    /\ OrchInitWith({"ollama"}) /\ ChatInit /\ McpIdle /\ OaiInit /\ StreamIdle
    /\ TruncIdle /\ TpIdle /\ CnIdle /\ SettingsIdle /\ GmInit
    /\ ScIdle
    /\ AnIdle
    /\ GqIdle
    /\ LnIdle
    /\ MnIdle

\* one GeminiStream fed any data lines
SpecGemini == InitGemini /\ [][GmNext]_vars

InitStreamChat ==
    /\ OrchInitWith({"ollama"}) /\ ChatInit /\ McpIdle /\ OaiInit /\ StreamIdle
    /\ TruncIdle /\ TpIdle /\ CnIdle /\ SettingsIdle /\ GmIdle
    /\ ScInit
    /\ AnIdle
    /\ GqIdle
    /\ LnIdle
    /\ MnIdle

\* one stream_chat call on any adapter
SpecStreamChat == InitStreamChat /\ [][ScNext]_vars

InitAnthropic ==
    /\ OrchInitWith({"ollama"}) /\ ChatInit /\ McpIdle /\ OaiInit /\ StreamIdle
    /\ TruncIdle /\ TpIdle /\ CnIdle /\ SettingsIdle /\ GmIdle
    /\ ScIdle /\ AnInit
    /\ GqIdle
    /\ LnIdle
    /\ MnIdle

\* one AnthropicStream fed any data lines
SpecAnthropic == InitAnthropic /\ [][AnNext]_vars

InitGroq ==
    /\ OrchInitWith({"ollama"}) /\ ChatInit /\ McpIdle /\ OaiInit /\ StreamIdle
    /\ TruncIdle /\ TpIdle /\ CnIdle /\ SettingsIdle /\ GmIdle
    /\ ScIdle /\ AnIdle /\ GqInit
    /\ LnIdle
    /\ MnIdle

\* one tool_use_failed chunk with any failed_generation
SpecGroq == InitGroq /\ [][GqNext]_vars

InitLines ==
    /\ OrchInitWith({"ollama"}) /\ ChatInit /\ McpIdle /\ OaiInit /\ StreamIdle
    /\ TruncIdle /\ TpIdle /\ CnIdle /\ SettingsIdle /\ GmIdle
    /\ ScIdle /\ AnInit /\ GqIdle /\ LnInit
    /\ MnIdle

\* the parser of one adapter fed any lines
SpecLines == InitLines /\ [][LnNext]_vars

InitMonitoring ==
    /\ OrchInitWith({"ollama"}) /\ ChatInit /\ McpIdle /\ OaiInit /\ StreamIdle
    /\ TruncIdle /\ TpIdle /\ CnIdle /\ SettingsIdle /\ GmIdle
    /\ ScIdle /\ AnIdle /\ GqIdle /\ LnIdle /\ MnInit

\* start_system_monitoring and stop_system_monitoring called in any order,
\* with the spawned loop tasks running
SpecMonitoring == InitMonitoring /\ [][MnNext]_vars

\* ================================================================= claims
TerminalTopics == {"chat:complete", "chat:cancelled", "chat:error"}
TerminalCount ==
    Cardinality({ i \in 1..Len(emitted) : emitted[i].topic \in TerminalTopics })
LastTopic == IF emitted = <<>> THEN "" ELSE emitted[Len(emitted)].topic
IsInfix(a, b) == \E k \in 1..(Len(b) - Len(a) + 1) : SubSeq(b, k, k + Len(a) - 1) = a

\* C1: when run_conversation has returned, exactly one of chat:complete,
\* chat:cancelled, chat:error has been emitted, and it is the last event
C1_ExactlyOneTerminalEventLast ==
    pc = "returned" => TerminalCount = 1 /\ LastTopic \in TerminalTopics

\* C2: stream_chat is invoked at most MAX_LOOPS times in one run, and the only
\* step run_conversation takes at the loop head after the MAX_LOOPS-th
\* invocation is to return
C2_AtMostMaxLoopsInvocations ==
    [][ /\ calls' <= MAX_LOOPS
        /\ (pc = "loop_top" /\ calls = MAX_LOOPS) => pc' \in {"loop_top", "returned"} ]_vars

C2_Witness ==
    /\ pc = "returned" /\ result = Ok
    /\ calls = MAX_LOOPS
    /\ LastTopic = "chat:tool-start"

\* C3: no chat:chunk is emitted once the cancel flag is set, and a run that
\* passed an event boundary with the flag set ends with chat:cancelled
C3_CancelStopsChunksThenCancelled ==
    /\ cancel_at >= 0 =>
         \A i \in (cancel_at + 1)..Len(emitted) : emitted[i].topic # "chat:chunk"
    /\ (pc = "returned" /\ cancel_seen) => LastTopic = "chat:cancelled"

PriorCallsWithId(i, id) ==
    UNION { { <<j, k>> : k \in { k \in 1..Len(messages[j].tool_calls[1]) :
                                   CallId(messages[j].tool_calls[1][k]) = id } } :
            j \in { j \in 1..(i - 1) :
                      messages[j].role = "assistant" /\ messages[j].tool_calls # None } }

C8_ToolMessageMatchesOneCall ==
    \A i \in 1..Len(messages) :
        messages[i].role = "tool" =>
            /\ messages[i].tool_call_id # None
            /\ messages[i].tool_call_id[1] # ""
            /\ Cardinality(PriorCallsWithId(i, messages[i].tool_call_id[1])) = 1

\* C9: a run that ended because stream_chat failed returned failure and its
\* last event is chat:error
C9_StreamChatFailureEmitsError ==
    (pc = "returned" /\ result.from = "stream_chat") =>
        result.tag = "Err" /\ LastTopic = "chat:error"

\* C4: once chat_stream has returned, whatever the exit path, its stream id
\* is no longer in the registry
C4_RegistryCleanup ==
    \A s \in Invocations : cs_pc[s] = "returned" => s \notin ACTIVE_STREAMS

\* C6: the transport mutex is held from a caller's send until that caller has
\* received its own response, so at most one request is in flight at a time,
\* and no caller drops a response that carries another caller's id
InFlight == { c \in Callers : mcp_pc[c] \in {"recv", "receiving"} }

C6_SerializedSendReceive ==
    /\ Cardinality(InFlight) <= 1
    /\ \A d \in discarded :
         d.frame.kind = "response" =>
            \A c \in Callers \ {d.by} : d.frame.id # Some(mcp_id[c])

\* C7: a send_request that returns the outcome of a response (a result or a
\* JSON-RPC error) returns that of a response carrying the id it allocated
C7_ReturnsOwnResponseOnly ==
    \A c \in Callers :
        mcp_ret[c].tag \in {"Ok", "RpcErr"} =>
            /\ mcp_ret[c].frame.kind = "response"
            /\ mcp_ret[c].frame.id = Some(mcp_id[c])

\* a call that returned its own result after dropping a response with another
\* id and a frame without id
C7_Witness ==
    \E c \in Callers :
        /\ mcp_ret[c].tag = "Ok"
        /\ \E d \in discarded : d.by = c /\ d.frame.kind = "response"
        /\ \E d \in discarded : d.by = c /\ d.frame.id = None

\* ---- C10
\* what process_data_line walks through, in order: every tool-call delta that
\* carries an index, and every terminator (a finish_reason or "[DONE]")
RECURSIVE ChoiceItems(_)
ChoiceItems(choices) ==
    IF choices = <<>> THEN <<>>
    ELSE LET c == Head(choices)
             ds == IF c.tool_calls = None THEN <<>>
                   ELSE SelectSeq(c.tool_calls[1], LAMBDA d : d.index # None)
         IN  [k \in 1..Len(ds) |-> [t |-> "delta", d |-> ds[k]]]
               \o (IF c.finish THEN <<[t |-> "end"]>> ELSE <<>>)
               \o ChoiceItems(Tail(choices))

RECURSIVE LineItems(_)
LineItems(lines) ==
    IF lines = <<>> THEN <<>>
    ELSE (CASE Head(lines).kind = "[DONE]" -> <<[t |-> "end"]>>
            [] Head(lines).kind = "chunk" -> ChoiceItems(Head(lines).choices)
            [] OTHER -> <<>>)
           \o LineItems(Tail(lines))

\* a delta sequence ended by a terminator: no delta after the first terminator
EndedDeltaSequence(items) ==
    /\ \E k \in 1..Len(items) : items[k].t = "end"
    /\ \A j, k \in 1..Len(items) :
          (items[j].t = "end" /\ items[k].t = "delta") => k < j
    /\ \A k \in 1..Len(data_lines) : data_lines[k].kind # "groq"

DeltasOfIndex(items, i) ==
    SelectSeq(items, LAMBDA it : it.t = "delta" /\ it.d.index = Some(i))

RECURSIVE LastOf(_, _, _)
\* the last present value of a replaced field, or its default
LastOf(ds, field, default) ==
    IF ds = <<>> THEN default
    ELSE IF ds[Len(ds)].d[field] # None THEN ds[Len(ds)].d[field][1]
    ELSE LastOf(SubSeq(ds, 1, Len(ds) - 1), field, default)

RECURSIVE ConcatOf(_, _)
\* the concatenation, in arrival order, of the present values of a field
ConcatOf(ds, field) ==
    IF ds = <<>> THEN ""
    ELSE (IF Head(ds).d[field] # None THEN Head(ds).d[field][1] ELSE "")
           \o ConcatOf(Tail(ds), field)

ExpectedCall(items, i) ==
    LET ds == DeltasOfIndex(items, i)
    IN  [id |-> LastOf(ds, "id", ""), type |-> LastOf(ds, "type", "function"),
         function |-> [name |-> ConcatOf(ds, "name"),
                       arguments |-> ConcatOf(ds, "arguments")]]

IndicesOf(items) ==
    { items[k].d.index[1] : k \in { j \in 1..Len(items) : items[j].t = "delta" } }

ToolCallsIn(q) ==
    LET tcs == SelectSeq(q, LAMBDA e : e.type = "ToolCall")
    IN  [k \in 1..Len(tcs) |-> tcs[k].val]

\* C10: for a delta sequence ended by a finish_reason or "[DONE]", the parser
\* has emitted exactly one ToolCall per distinct index, in ascending index
\* order, each with the last id delta of its index and the concatenation of
\* its name and arguments deltas, and the accumulator is empty after the flush.
C10_DeltasYieldOneCallPerIndex ==
    LET items == LineItems(data_lines)
        idx == IndicesOf(items)
        tcs == ToolCallsIn(queue)
    IN  EndedDeltaSequence(items) =>
          /\ Len(tcs) = Cardinality(idx)
          /\ \A k \in 1..Len(tcs) :
                \E i \in idx :
                    /\ Cardinality({ j \in idx : j < i }) = k - 1
                    /\ tcs[k] = ExpectedCall(items, i)
          /\ DOMAIN tool_call_accumulator = {}

\* two indices, the first delta chunk lists index 1 before index 0; index 0
\* then gets a second id delta and a second arguments delta
C10_Witness ==
    LET items == LineItems(data_lines)
        tcs == ToolCallsIn(queue)
    IN  /\ EndedDeltaSequence(items)
        /\ IndicesOf(items) = {0, 1}
        /\ Len(tcs) = 2
        /\ tcs[1].id = "y"
        /\ tcs[1].function.arguments = "ab"
        /\ Len(DeltasOfIndex(items, 0)) = 3


\* ---- C11
RECURSIVE ContentText(_)
\* the concatenation of the Content events of a sequence of events
ContentText(events) ==
    IF events = <<>> THEN <<>>
    ELSE (IF Head(events).type = "Content" THEN Head(events).val ELSE <<>>)
           \o ContentText(Tail(events))

\* the events of the body delivered as one chunk
UnsplitEvents(adapter, bytes) ==
    LET st == OnBytes(adapter, <<>>, <<>>, bytes)
    IN  OnEnd(adapter, st.buffer, st.queue).queue

\* C11: however the bytes of a well-formed body are split into chunks, the
\* Content events of the adapter stream concatenate to the same text as for
\* the body delivered unsplit
C11_ChunkingPreservesContent ==
    st_ended => ContentText(st_queue) = ContentText(UnsplitEvents(st_adapter, st_body))


\* ---- C12
RECURSIVE CharLen(_)
\* the number of characters of a text
CharLen(runs) == IF runs = <<>> THEN 0 ELSE Head(runs).n + CharLen(Tail(runs))

RECURSIVE LastNewlineWithin(_, _, _, _)
\* the index (from 0) of the last newline among the first k characters, -1 if
\* there is none; off is the index of the first character of runs
LastNewlineWithin(runs, k, off, best) ==
    IF runs = <<>> \/ off >= k THEN best
    ELSE LET r == Head(runs)
             end == IF off + r.n < k THEN off + r.n ELSE k
         IN  LastNewlineWithin(Tail(runs), k, off + r.n,
                               IF r.ch = "\n" THEN end - 1 ELSE best)

RECURSIVE TakeChars(_, _)
\* the first k characters of a text
TakeChars(runs, k) ==
    IF k = 0 \/ runs = <<>> THEN <<>>
    ELSE IF k >= Head(runs).n THEN <<Head(runs)>> \o TakeChars(Tail(runs), k - Head(runs).n)
    ELSE <<Run(Head(runs).ch, k)>>

\* C12: a text of more than 8000 characters becomes the text cut at its last
\* newline at or before position 8000, followed by the truncation notice; a
\* text of 8000 characters or fewer is the content unchanged, without notice
C12_TruncatesAtLastNewline ==
    tr_content # NoContent =>
        IF CharLen(tr_text) > MAX_RESULT_CHARS
        THEN LET nl == LastNewlineWithin(tr_text, MAX_RESULT_CHARS, 0, -1)
             IN  /\ tr_content.tag = "content"
                 /\ tr_content.notice # None
                 /\ nl # -1 => tr_content.text = TakeChars(tr_text, nl)
        ELSE tr_content = ResultText(tr_text, None)


\* ---- C13
HasTopic(topic) == \E i \in 1..Len(emitted) : emitted[i].topic = topic

\* C13: chat:stream-start is emitted exactly once, before every other event of
\* the run
C13_StreamStartFirstAndOnce ==
    /\ pc = "start" => emitted = <<>>
    /\ pc # "start" => (emitted # <<>> /\ emitted[1].topic = "chat:stream-start")
    /\ \A i \in 2..Len(emitted) : emitted[i].topic # "chat:stream-start"

\* a finished run that emitted chunks, a tool start and a terminal event
C13_Witness ==
    /\ pc = "returned"
    /\ HasTopic("chat:chunk") /\ HasTopic("chat:tool-start") /\ HasTopic("chat:complete")


\* ---- C14
\* C14: whenever run_conversation loads the cancel flag and finds it set (at
\* the start of a loop iteration below the cap, between events, after the
\* stream has ended), it emits chat:cancelled and returns success, and the run
\* has emitted neither chat:error nor chat:complete
C14_ObservedCancelEndsWithCancelled ==
    [][ (should_cancel /\ (pc = "streaming" \/ (pc = "loop_top" /\ loop_count < MAX_LOOPS))) =>
          /\ emitted' = Append(emitted, [topic |-> "chat:cancelled", payload |-> <<>>])
          /\ pc' = "returned"
          /\ result' = Ok
          /\ \A i \in 1..Len(emitted') :
                emitted'[i].topic \notin {"chat:error", "chat:complete"}
      ]_vars

\* a run cancelled at the start of its second iteration, after a turn that
\* streamed content and ran a tool
C14_Witness ==
    /\ pc = "returned" /\ result = Ok
    /\ LastTopic = "chat:cancelled"
    /\ loop_count = 2 /\ calls = 1
    /\ HasTopic("chat:chunk") /\ HasTopic("chat:tool-start")


\* ---- C15
LastTaken == taken[Len(taken)]

\* C15 as stated: once the adapter has yielded Error(e), the run has returned
\* failure and its last event is chat:error carrying e
C15_ErrorEventAlwaysSurfaced ==
    (taken # <<>> /\ LastTaken.type = "Error") =>
        /\ pc = "returned"
        /\ result.tag = "Err"
        /\ emitted[Len(emitted)] = [topic |-> "chat:error", payload |-> LastTaken.val]

\* C15: once the adapter has yielded Error(e) with the cancel flag not set, the
\* run has returned failure with e and its last event is chat:error carrying e;
\* a run that has returned takes no further event, runs no tool, invokes the
\* adapter no more and emits nothing
C15_ErrorEventEndsRun ==
    /\ [] ( (taken # <<>> /\ LastTaken.type = "Error" /\ ~should_cancel) =>
              /\ pc = "returned"
              /\ result = Err(LastTaken.val, "event")
              /\ emitted[Len(emitted)] = [topic |-> "chat:error", payload |-> LastTaken.val] )
    /\ [][ pc = "returned" => UNCHANGED <<pc, taken, nread, mcp_calls, calls, emitted>> ]_vars

\* an Error event in the second turn, after a turn that ran a tool
C15_Witness ==
    /\ pc = "returned" /\ result.from = "event"
    /\ calls = 2 /\ mcp_calls # <<>>
    /\ LastTaken.type = "Error" /\ ~should_cancel


\* ---- C16
\* C16: when the loop counter has reached MAX_LOOPS at the head of an
\* iteration, the run returns success without emitting any further event and
\* without invoking the adapter again
C16_LoopLimitExitsSilently ==
    [][ (pc = "loop_top" /\ loop_count >= MAX_LOOPS /\ pc' # pc) =>
          /\ pc' = "returned"
          /\ result' = Ok
          /\ emitted' = emitted
          /\ calls' = calls
          /\ loop_count' = loop_count
      ]_vars

\* a run that left through the cap: MAX_LOOPS message lists were passed to the
\* adapter and no terminal event was emitted
C16_Witness ==
    /\ pc = "returned" /\ result = Ok
    /\ loop_count = MAX_LOOPS
    /\ Len(passed) = MAX_LOOPS
    /\ TerminalCount = 0

\* ---- C17
FinalChunk ==
    [topic |-> "chat:chunk",
     payload |-> [role |-> "assistant", content |-> <<>>, done |-> TRUE]]

\* C17: when the stream ends with no tool call collected and the cancel flag
\* unset, the run emits a final chat:chunk with empty content and done = true,
\* then chat:complete with completed = true, invokes the adapter no more and
\* returns success
C17_NoToolCallsCompletes ==
    [][ ( /\ pc = "streaming" /\ pc' # "streaming" /\ nread' = nread
          /\ tool_calls = <<>> /\ ~should_cancel ) =>
          /\ emitted' = emitted \o
                << FinalChunk,
                   [topic |-> "chat:complete", payload |-> [completed |-> TRUE]] >>
          /\ pc' = "returned"
          /\ result' = Ok
          /\ calls' = calls
      ]_vars

\* a second turn, after a tool round, that ended without tool calls
C17_Witness ==
    /\ pc = "returned" /\ result = Ok
    /\ Len(emitted) >= 2
    /\ emitted[Len(emitted) - 1] = FinalChunk
    /\ LastTopic = "chat:complete"
    /\ calls = 2 /\ ~should_cancel


\* ---- C18
TurnEvents == SubSeq(emitted, turn_at + 1, Len(emitted))
IsStreamingChunk(e) == e.topic = "chat:chunk" /\ ~e.payload.done
TurnChunks == SelectSeq(TurnEvents, IsStreamingChunk)
TurnChunkContents == [i \in 1..Len(TurnChunks) |-> TurnChunks[i].payload.content]

IsContentEvent(ev) == ev.type = "Content"
ContentsOf(evs) ==
    LET cs == SelectSeq(evs, IsContentEvent) IN [i \in 1..Len(cs) |-> cs[i].val]

RECURSIVE Flatten(_)
Flatten(ss) == IF ss = <<>> THEN <<>> ELSE Head(ss) \o Flatten(Tail(ss))

IsAssistant(m) == m.role = "assistant"
LastAssistant == LET as == SelectSeq(messages, IsAssistant) IN as[Len(as)]

\* C18 as stated: the chunks of a turn carry, in order, the contents of every
\* Content event the stream has yielded in that turn, and a stream that is
\* being read has put nothing but those chunks on the UI
C18_EveryContentYieldsChunk ==
    /\ TurnChunkContents = ContentsOf(taken)
    /\ pc = "streaming" => TurnEvents = TurnChunks

\* C18: an event taken with the cancel flag unset yields exactly one chat:chunk
\* with its content and done = false if it is a Content event, and no UI event
\* if it is a ToolCall or Usage event; the chunks of a turn follow the arrival
\* order of the Content events; the concatenation of a turn's chunk contents is
\* full_content, which is the content of the assistant message recorded for
\* the turn
C18_ContentChunksInOrder ==
    /\ [][ (pc = "streaming" /\ nread' = nread + 1 /\ ~should_cancel) =>
             LET ev == taken'[Len(taken')] IN
             /\ ev.type = "Content" =>
                  emitted' = Append(emitted,
                      [topic |-> "chat:chunk",
                       payload |-> [role |-> "assistant", content |-> ev.val,
                                    done |-> FALSE]])
             /\ ev.type \in {"ToolCall", "Usage"} => emitted' = emitted
         ]_vars
    /\ [] ( /\ \E n \in {Len(taken) - 1, Len(taken)} \cap Nat :
                 TurnChunkContents = ContentsOf(SubSeq(taken, 1, n))
            /\ pc = "streaming" =>
                 /\ TurnEvents = TurnChunks
                 /\ Flatten(TurnChunkContents) = full_content
            /\ pc = "tools" =>
                 LastAssistant.content = Flatten(TurnChunkContents) )

\* a turn that streamed "b" and then a tool call: one chunk, and the assistant
\* message recorded for the turn carries "b"
C18_Witness ==
    /\ pc = "tools"
    /\ TurnChunkContents = << <<"b">> >>
    /\ Len(taken) = 2 /\ taken[2].type = "ToolCall"
    /\ LastAssistant.content = <<"b">>


\* ---- C19
IsToolCallEvent(ev) == ev.type = "ToolCall"
TakenToolCalls(evs) ==
    LET tcs == SelectSeq(evs, IsToolCallEvent) IN [i \in 1..Len(tcs) |-> tcs[i].val]

\* C19: when stream_chat is invoked again after a turn that ended with tool
\* calls, the message list it is given is the list of the previous invocation
\* followed by one assistant message with the turn's concatenated content and
\* every tool call the stream yielded, followed by one tool message per tool
\* call, in order, whose tool_call_id is the id of that call
C19_NextListExtendsPrevious ==
    (pc = "stream_chat" /\ Len(passed) >= 2) =>
        LET prev == passed[Len(passed) - 1]
            cur  == passed[Len(passed)]
            n    == Len(prev)
        IN  /\ tool_calls = TakenToolCalls(taken)
            /\ tool_calls # <<>>
            /\ Len(cur) = n + 1 + Len(tool_calls)
            /\ SubSeq(cur, 1, n) = prev
            /\ cur[n + 1] = ChatMessage("assistant", Flatten(TurnChunkContents),
                                        Some(tool_calls), None)
            /\ \A i \in 1..Len(tool_calls) :
                 /\ cur[n + 1 + i].role = "tool"
                 /\ cur[n + 1 + i].tool_call_id = tool_calls[i].id


\* ---- C20
RECURSIVE SplitLines(_)
\* the records of a body: the byte runs between newlines, empty runs left out
SplitLines(bytes) ==
    LET pos == FindNewline(bytes)
        line == IF pos = 0 THEN bytes ELSE SubSeq(bytes, 1, pos - 1)
        rest == IF pos = 0 THEN <<>> ELSE SubSeq(bytes, pos + 1, Len(bytes))
    IN  IF bytes = <<>> THEN <<>>
        ELSE (IF line = <<>> THEN <<>> ELSE <<line>>) \o SplitLines(rest)

RecordContent(line) == Utf8Lossy(SubSeq(line, 2, Len(line) - 1))
RecordIsDone(line) == line[Len(line)] = "!"

\* what C20 expects of one record {message:{content}, done, counts}
ExpectedOfRecord(line) ==
    (IF RecordContent(line) # <<>> THEN <<ContentEv(RecordContent(line))>> ELSE <<>>)
    \o (IF RecordIsDone(line)
        THEN <<[type |-> "Usage",
                val |-> [prompt_tokens |-> Some(3), completion_tokens |-> Some(2),
                         total_tokens |-> Some(5)]]>>
        ELSE <<>>)

RECURSIVE ExpectedEvents(_)
ExpectedEvents(lines) ==
    IF lines = <<>> THEN <<>>
    ELSE ExpectedOfRecord(Head(lines)) \o ExpectedEvents(Tail(lines))

StreamingChunk(s) ==
    [topic |-> "chat:chunk",
     payload |-> [role |-> "assistant", content |-> s, done |-> FALSE]]

\* orchestrator.rs 40, 60-103 with no tools and the flag unset: the UI events
\* of a run whose only stream yields the Content and Usage events evs
UiEvents(evs) ==
    LET cs == ContentsOf(evs)
    IN  << [topic |-> "chat:stream-start", payload |-> <<>>] >>
        \o [i \in 1..Len(cs) |-> StreamingChunk(cs[i])]
        \o << FinalChunk, [topic |-> "chat:complete", payload |-> [completed |-> TRUE]] >>

\* an event without the text of its content
Kind(ev) == IF ev.type = "Content" THEN "Content" ELSE ev
Kinds(evs) == [i \in 1..Len(evs) |-> Kind(evs[i])]
NoReplacement(evs) ==
    \A i \in 1..Len(evs) :
        evs[i].type = "Content" => \A k \in 1..Len(evs[i].val) : evs[i].val[k] # "FFFD"

\* C20: once the local-daemon adapter has read a whole body, the events it has
\* yielded are one Content per record with non-empty content, in record order,
\* and one Usage on each done record, whether or not the message objects carry
\* a role; the UI events of a run over them are stream-start, one chunk per
\* Content, the final chunk and complete.  (The text of a Content is compared
\* only when no chunk boundary has put U+FFFD into it.)
C20_OllamaRecordsYieldContentAndUsage ==
    (st_adapter = "ollama" /\ st_ended /\ st_body # <<>>) =>
        LET exp == ExpectedEvents(SplitLines(st_body))
        IN  /\ Kinds(st_queue) = Kinds(exp)
            /\ NoReplacement(st_queue) => st_queue = exp
            /\ Topics(UiEvents(st_queue)) = Topics(UiEvents(exp))
            /\ NoReplacement(st_queue) => UiEvents(st_queue) = UiEvents(exp)


\* ---- C23
\* C23: a send_request whose receive sees the end of the stream returns the
\* connection-closed failure; one that receives the response with its id
\* carrying an error object returns that error, whether or not the response
\* also carries a result; a send_request that has returned does nothing more,
\* and no request id is handed to the transport twice
C23_ClosedAndRpcErrorsFail ==
    /\ [][ \A c \in Callers :
             /\ (mcp_pc[c] = "receiving" /\ inbox = <<>> /\ closed /\ mcp_pc'[c] # mcp_pc[c]) =>
                    /\ mcp_pc'[c] = "returned"
                    /\ mcp_ret'[c].tag = "Closed"
             /\ ( /\ mcp_pc[c] = "receiving" /\ inbox # <<>> /\ inbox' = Tail(inbox)
                  /\ Head(inbox).kind = "response"
                  /\ Head(inbox).id = Some(mcp_id[c])
                  /\ Head(inbox).error ) =>
                    /\ mcp_pc'[c] = "returned"
                    /\ mcp_ret'[c] = McpRet("RpcErr", Head(inbox))
             /\ mcp_pc[c] = "returned" =>
                    /\ mcp_pc'[c] = "returned" /\ mcp_ret'[c] = mcp_ret[c]
                    /\ mcp_sent' = mcp_sent \/ mcp_sent'[Len(mcp_sent')] # mcp_id[c]
         ]_vars
    /\ [] ( /\ \A i, j \in 1..Len(mcp_sent) : mcp_sent[i] = mcp_sent[j] => i = j
            /\ \A c \in Callers :
                 mcp_ret[c].tag \in {"Closed", "RpcErr"} => mcp_pc[c] = "returned" )

\* one call failed with the error of a response that also carried a result,
\* the other with the closed connection
C23_Witness ==
    \E c, d \in Callers :
        /\ mcp_ret[c].tag = "RpcErr" /\ mcp_ret[c].frame.result
        /\ mcp_ret[d].tag = "Closed"
        /\ Len(mcp_sent) = 2


\* ---- C22
\* the frames the receive calls so far have taken from the event stream
EndpointReceived ==
    \E i \in 1..Len(tp_log) : \E k \in 1..Len(tp_log[i].consumed) :
        tp_log[i].consumed[k].kind = "endpoint"

\* C22: on the SSE transport a send called before any receive has taken an
\* endpoint event fails with the no-endpoint error and posts nothing; once a
\* receive has taken an endpoint event the POST URL is set; no receive returns
\* an endpoint event as its message
C22_NoSendBeforeEndpoint ==
    /\ [][ ( /\ tp_kind = "sse" /\ ~EndpointReceived
             /\ Len(tp_log') = Len(tp_log) + 1
             /\ tp_log'[Len(tp_log')].op = "send" ) =>
                /\ tp_log'[Len(tp_log')].tag = "NoEndpoint"
                /\ tp_posted' = tp_posted
         ]_vars
    /\ [] ( /\ EndpointReceived => tp_post_url = Some("url")
            /\ \A i \in 1..Len(tp_log) : tp_log[i].frame.kind # "endpoint" )

\* a send that failed for want of an endpoint, a receive that took the
\* endpoint event and returned the message after it, and a send that posted
C22_Witness ==
    /\ tp_kind = "sse"
    /\ Len(tp_log) = 3
    /\ tp_log[1].op = "send" /\ tp_log[1].tag = "NoEndpoint"
    /\ tp_log[2].op = "receive" /\ tp_log[2].tag = "Some"
    /\ tp_log[2].consumed[1].kind = "endpoint"
    /\ tp_log[3].op = "send" /\ tp_log[3].tag = "Ok"
    /\ tp_posted = <<"request">>


\* ---- C30
\* C30: a receive that has taken a frame that is not JSON returns failure
\* (which send_request passes on through `?`), on either transport
C30_UnparseableFrameIsFatal ==
    \A i \in 1..Len(tp_log) :
        (\E k \in 1..Len(tp_log[i].consumed) : tp_log[i].consumed[k].kind = "garbage") =>
            tp_log[i].tag \in {"ParseErr", "SseErr"}


\* ---- C21
Registered == <<ConnectName, "new">> \in cn_registry

\* C21: connect_http against a conforming server eventually registers the
\* client under its name
C21_ConformingSseConnects ==
    (cn_kind = "sse" /\ cn_server = "conforming") => <>Registered

\* ---- C29
\* C29: the client is in the registry only when the initialize request has
\* been answered without error, the notifications/initialized notification
\* has then been sent without id, and nothing was awaited after it; the
\* messages sent are the initialize request with the first id and then the
\* notification, an object with no "id" member; until the call registers, and
\* whenever it has failed, the registry is what it was when the call began
C29_RegistersOnlyAfterHandshake ==
    /\ Registered =>
         /\ Len(cn_trace) >= 4
         /\ cn_trace[1] = "send_init"
         /\ SubSeq(cn_trace, Len(cn_trace) - 2, Len(cn_trace))
               = <<"init_reply", "notified", "registered">>
         /\ \A i \in 2..(Len(cn_trace) - 3) : cn_trace[i] = "skip"
         /\ cn_posted = << ToValue(Msg("initialize", Some(1))),
                           WithoutId("notifications/initialized") >>
         /\ cn_result = CnOk
    /\ ~Registered => cn_registry = cn_registry0
    /\ cn_result.tag = "Err" => cn_registry = cn_registry0
    /\ Registered => cn_registry = Insert(cn_registry0, ConnectName, "new")


\* ---- C24
\* C24: whatever commands have run, the provider list settings_get returns
\* holds the default local provider, and a provider_delete of its id was
\* rejected and left the file as it was
C24_DefaultProviderAlwaysListed ==
    /\ HasId(SettingsGet(sf_file).providers, "ollama-default")
    /\ \A i \in 1..Len(sf_log) :
         (sf_log[i].op = "provider_delete" /\ sf_log[i].arg = "ollama-default") =>
            sf_log[i].tag = "Err" /\ sf_log[i].after = sf_log[i].before

\* ---- C25
\* the ids of the ToolCall events of a sequence of provider events, in order
ToolCallIds(events) ==
    LET tcs == SelectSeq(events, LAMBDA e : e.type = "ToolCall")
    IN  [k \in 1..Len(tcs) |-> tcs[k].val.id]

PairwiseDistinct(ids) ==
    \A i, j \in 1..Len(ids) : i # j => ids[i] # ids[j]

\* C25: the ToolCall events one adapter invocation has yielded carry pairwise
\* distinct ids; stated for the Google-style adapter's stream
C25_ToolCallIdsDistinct ==
    PairwiseDistinct(ToolCallIds(gm_yielded))

\* ---- C26
\* C26: a call of abort_chat sets the flag of exactly the streams registered at
\* that moment and leaves the registry as it was; a stream registered later
\* starts with its flag false; no step resets a flag, and no other step sets one
C26_AbortFlagsRegisteredStreamsOnly ==
    [][ /\ cs_aborts' # cs_aborts =>
             /\ \A s \in Invocations :
                  cs_flag'[s] = (IF s \in ACTIVE_STREAMS THEN TRUE ELSE cs_flag[s])
             /\ ACTIVE_STREAMS' = ACTIVE_STREAMS
        /\ cs_aborts' = cs_aborts => cs_flag' = cs_flag
        /\ \A s \in Invocations :
             /\ cs_flag[s] => cs_flag'[s]
             /\ s \in ACTIVE_STREAMS' \ ACTIVE_STREAMS => ~cs_flag'[s] ]_vars

\* abort_chat has run while one stream was registered, and the other stream,
\* registered after it, is unflagged
C26_Witness ==
    /\ cs_aborts > 0
    /\ \E s, t \in Invocations :
         /\ s \in ACTIVE_STREAMS /\ cs_flag[s]
         /\ t \in ACTIVE_STREAMS /\ ~cs_flag[t]

\* ---- C27
RECURSIVE TextParts(_)
\* the texts of the text and resource parts of a result, in order
TextParts(content) ==
    IF content = <<>> THEN <<>>
    ELSE LET item == Head(content)
         IN  (IF item.type \in {"text", "resource"} /\ item.text # None
              THEN <<item.text[1]>> ELSE <<>>) \o TextParts(Tail(content))

RECURSIVE NewlineSeparated(_)
NewlineSeparated(parts) ==
    IF parts = <<>> THEN <<>>
    ELSE IF Len(parts) = 1 THEN parts[1]
    ELSE parts[1] \o <<"\n">> \o NewlineSeparated(Tail(parts))

\* C27: the tool message of a call_tool that succeeded holds the text and
\* resource.text parts of the result in order, separated by newlines, and
\* nothing else; the single text part "a\nb\n" gives exactly "a\nb\n"
C27_ToolMessageIsPartsNewlineSeparated ==
    \A i \in 1..Len(mcp_calls) :
       (mcp_calls[i].out.ok /\ mcp_calls[i].msg <= Len(messages)) =>
          LET content == messages[mcp_calls[i].msg].content
              out == mcp_calls[i].out
          IN  /\ content = NewlineSeparated(TextParts(out.content))
              /\ out.content = <<TextItem(S2Text)>> => content = S2Text

\* ---- C28
\* C28: every chat:tool-start event belongs to a call_tool invocation for the
\* tool it names, made right after the event was emitted (the arguments of the
\* event and of the invocation are the one value of line 123)
C28_ToolStartOnlyWhenToolRuns ==
    \A k \in 1..Len(emitted) :
       emitted[k].topic = "chat:tool-start" =>
          \E i \in 1..Len(mcp_calls) :
             mcp_calls[i].at = k /\ mcp_calls[i].tool = emitted[k].payload.tool

\* ---- C31
\* what the claim says of the local-daemon adapter
OllamaRequestsAsClaimed ==
    /\ Len(sc_requests) <= 2
    /\ Len(sc_requests) = 2 =>
          /\ sc_responses[1] = "no tools"
          /\ sc_tools # None /\ sc_tools[1] # <<>>
          /\ sc_requests[2].messages = sc_messages
          /\ sc_requests[2].tools = None
    /\ Len(sc_responses) = 2 =>
          /\ sc_pc = "returned"
          /\ IF sc_responses[2] = "success"
             THEN sc_result.tag = "Ok" /\ sc_result.queue # <<>>
                    /\ sc_result.queue[1] = Warning
             ELSE sc_result.tag = "Err"

\* C31 as stated: the local-daemon adapter issues a second request only after
\* a "does not support tools" failure of a request with tools, built from the
\* caller's messages and without tools, whose success gives a stream that
\* starts with the warning and whose failure fails the call; every other
\* adapter has issued exactly one request when stream_chat returns
C31_ExactlyOneRequestElsewhere ==
    IF sc_adapter = "ollama" THEN OllamaRequestsAsClaimed
    ELSE sc_pc = "returned" => Len(sc_requests) = 1

\* C31 amended: as above for the local-daemon adapter; every other adapter
\* issues at most one request, and none only when stream_chat fails before
\* sending: on a missing API key (Anthropic-style, Google-style) or on a key
\* that is no header value (OpenAI-compatible, Anthropic-style)
C31_AtMostOneRequestElsewhere ==
    IF sc_adapter = "ollama" THEN OllamaRequestsAsClaimed
    ELSE /\ Len(sc_requests) <= 1
         /\ sc_pc = "returned" =>
              \/ Len(sc_requests) = 1
              \/ /\ sc_result.tag = "Err"
                 /\ \/ sc_key = "none" /\ sc_adapter \in {"anthropic", "google"}
                    \/ sc_key = "bad" /\ sc_adapter \in {"openai", "anthropic"}

\* the retry of the local-daemon adapter has succeeded
C31_Witness ==
    /\ sc_adapter = "ollama" /\ sc_pc = "returned"
    /\ Len(sc_requests) = 2 /\ sc_result = ScOk(<<Warning>>)
    /\ sc_requests[1].tools # None
    /\ sc_requests[1].messages # sc_messages

\* ---- C32
\* C32: "[DONE]" flushes the accumulated tool calls, and once a "[DONE]"
\* payload has been processed no later data line adds an event to the queue
C32_NothingAfterDone ==
    [][ /\ (data_lines' # data_lines /\ data_lines'[Len(data_lines')] = DoneLine) =>
             tool_call_accumulator' = <<>>
        /\ (\E i \in 1..Len(data_lines) : data_lines[i] = DoneLine) =>
             queue' = queue ]_vars

\* ---- C33
\* C33: when the byte stream ends while the buffer holds text, that text is
\* processed as one final line and its events join the queue, for the
\* local-daemon and for the OpenAI-compatible adapter
C33_TrailingBufferIsFinalLine ==
    [][ (~st_ended /\ st_pending = <<>> /\ st_inner = <<>> /\ st_buffer # <<>>
            /\ <<st_buffer, st_ended>>' # <<st_buffer, st_ended>>) =>
           st_queue' = st_queue \o ProcessLine(st_adapter, st_buffer) ]_vars

\* ---- C35
IsToolUseStart(ev) ==
    ev.type = "content_block_start" /\ ev.content_block # None
        /\ ev.content_block[1].type = "tool_use"

\* the tool_use block open after the lines: the position of the last
\* content_block_start of type tool_use with no content_block_stop after it,
\* 0 if there is none
OpenBlock(lines) ==
    LET open == { i \in 1..Len(lines) :
                    /\ IsToolUseStart(lines[i])
                    /\ \A j \in (i + 1)..Len(lines) : lines[j].type # "content_block_stop" }
    IN  IF open = {} THEN 0 ELSE CHOOSE i \in open : \A j \in open : j <= i

RECURSIVE PartialJsonFrom(_, _)
\* the partial_json deltas of lines[i..], concatenated in order
PartialJsonFrom(lines, i) ==
    IF i > Len(lines) THEN ""
    ELSE (IF lines[i].type = "content_block_delta" /\ lines[i].delta # None
               /\ lines[i].delta[1].partial_json # None
          THEN lines[i].delta[1].partial_json[1] ELSE "")
         \o PartialJsonFrom(lines, i + 1)

\* what the claim has the k-th line yield
YieldOfLine(lines, k) ==
    LET ev == lines[k]
        before == SubSeq(lines, 1, k - 1)
        b == OpenBlock(before)
    IN  CASE ev.type = "content_block_stop" /\ b # 0 ->
                << [type |-> "ToolCall",
                    val |-> [id |-> before[b].content_block[1].id[1], type |-> "function",
                             function |-> [name |-> before[b].content_block[1].name[1],
                                           arguments |-> PartialJsonFrom(before, b + 1)]]] >>
          [] ev.type = "message_stop" -> << [type |-> "Usage"] >>
          [] ev.type = "content_block_delta" /\ ev.delta # None /\ ev.delta[1].text # None ->
                << [type |-> "Content", val |-> ev.delta[1].text[1]] >>
          [] OTHER -> <<>>

RECURSIVE YieldsUpTo(_, _)
YieldsUpTo(lines, k) ==
    IF k = 0 THEN <<>> ELSE YieldsUpTo(lines, k - 1) \o YieldOfLine(lines, k)

WithoutUsageFigures(evs) ==
    [k \in 1..Len(evs) |-> IF evs[k].type = "Usage" THEN [type |-> "Usage"] ELSE evs[k]]

\* C35: the events of an Anthropic-style stream are, line by line: for a
\* content_block_stop that closes a tool_use block one ToolCall with the
\* block's id and name and the concatenation of its partial_json deltas, for
\* a content_block_stop with no block open nothing, for message_stop one
\* Usage, which so follows the ToolCall of every block closed before it
C35_OneToolCallPerToolUseBlock ==
    WithoutUsageFigures(an_queue) = YieldsUpTo(an_lines, Len(an_lines))

\* scenario S3: one tool_use block with two partial_json deltas, then message_stop
C35_Witness ==
    /\ an_lines = << ToolUseStart("t1", "search"), PartialJson("p"), PartialJson("q"),
                     AnEvent("content_block_stop", None, None, None),
                     AnEvent("message_stop", None, None, None) >>
    /\ Len(an_queue) = 2
    /\ an_queue[1].val = [id |-> "t1", type |-> "function",
                          function |-> [name |-> "search", arguments |-> "pq"]]
    /\ an_queue[2].type = "Usage"

\* ---- C36
\* the text is exactly <function=NAME{JSON_ARGS}></function>, NAME without
\* blanks around it
IsClaimedForm(gen) ==
    /\ gen.text = <<"<function=">> \o gen.name \o gen.args \o <<">", "</function>">>
    /\ TrimBlanks(gen.name) = gen.name

\* C36: for a failed_generation <function=NAME{JSON_ARGS}></function> the
\* parser has emitted exactly one ToolCall, with name NAME, arguments
\* JSON_ARGS and an id beginning groq_call_, if JSON_ARGS parses as JSON, and
\* no event if it does not
C36_GroqRepairEmitsOneToolCall ==
    (gq_done /\ IsClaimedForm(gq_gen)) =>
        IF IsJson(gq_gen.args)
        THEN /\ Len(gq_queue) = 1
             /\ gq_queue[1].type = "ToolCall"
             /\ gq_queue[1].val.function = [name |-> gq_gen.name, arguments |-> gq_gen.args]
             /\ gq_queue[1].val.id[1] = "groq_call_"
        ELSE gq_queue = <<>>

\* ---- C34
\* a line the adapter's parser fails to parse
OllamaBadLine(line) ==
    /\ line # <<>>
    /\ OllamaJson(line) = None \/ ~DeserializesAsOllamaResponse(OllamaJson(line)[1])

RECURSIVE OllamaReplay(_)
OllamaReplay(lines) ==
    IF lines = <<>> THEN <<>>
    ELSE OllamaProcessLine(Head(lines)) \o OllamaReplay(Tail(lines))

RECURSIVE OpenAIReplay(_, _)
OpenAIReplay(st, lines) ==
    IF lines = <<>> THEN st
    ELSE OpenAIReplay(ProcessDataLineOn(st, Head(lines)), Tail(lines))

RECURSIVE AnthropicReplay(_, _)
AnthropicReplay(st, lines) ==
    IF lines = <<>> THEN st
    ELSE AnthropicReplay(AnthropicProcessDataLine(st, Head(lines)), Tail(lines))

NoErrorEvent(events) == \A k \in 1..Len(events) : events[k].type # "Error"

\* C34: whatever lines a parser has been given, it has pushed no Error event,
\* and its events and its accumulators are what they are for the same lines
\* without the ones that fail to parse; so a line that fails produces nothing
\* and changes nothing for the lines after it
C34_BadLinesAreSkipped ==
    /\ NoErrorEvent(ol_queue) /\ NoErrorEvent(queue) /\ NoErrorEvent(an_queue)
    /\ ol_queue = OllamaReplay(SelectSeq(ol_lines, LAMBDA l : ~OllamaBadLine(l)))
    /\ [acc |-> tool_call_accumulator, queue |-> queue]
         = OpenAIReplay([acc |-> <<>>, queue |-> <<>>],
                        SelectSeq(data_lines, LAMBDA l : l # BadLine))
    /\ AnState(an_queue, current_tool_id, current_tool_name, current_tool_args,
               input_tokens, output_tokens)
         = AnthropicReplay(AnState(<<>>, None, None, "", 0, 0),
                           SelectSeq(an_lines, LAMBDA l : l # AnBad))

\* a line that fails to parse has come between two records
C34_Witness ==
    /\ Len(ol_lines) = 3
    /\ ~OllamaBadLine(ol_lines[1]) /\ OllamaBadLine(ol_lines[2]) /\ ~OllamaBadLine(ol_lines[3])
    /\ Len(ol_queue) = 3

\* ---- C37
Terminal(ev) == ev.topic \in {"chat:complete", "chat:cancelled", "chat:error"}

\* C37: of the events of each chat_stream invocation, chat:stream-start is
\* the first; a chat:complete, chat:cancelled or chat:error is the last, so
\* there is at most one and nothing follows it; and an invocation that has
\* returned has emitted one
C37_StartFirstOneTerminalLast ==
    \A s \in Invocations :
       LET evs == cs_emitted[s] IN
       /\ evs # <<>> => evs[1].topic = "chat:stream-start"
       /\ \A k \in 1..Len(evs) :
             /\ k > 1 => evs[k].topic # "chat:stream-start"
             /\ Terminal(evs[k]) => k = Len(evs)
       /\ cs_pc[s] = "returned" => (evs # <<>> /\ Terminal(evs[Len(evs)]))

\* ---- C38
\* C38: a body delivered in chunks that end on character boundaries yields the
\* events of the same body delivered in one chunk, whatever the chunking, and
\* the stream yields each event pushed to its queue once, in the order pushed,
\* before it reports its end
C38_ChunkingIndependentYield ==
    /\ st_queue = st_out \o st_pending
    /\ st_ended => (st_pending = <<>> /\ st_out = st_queue)
    /\ (st_ended /\ ~st_split) =>
          st_out = UnsplitEvents(st_adapter, st_body)

C38_Witness ==
    /\ st_ended
    /\ ~st_split
    /\ st_midline
    /\ Len(st_out) >= 2
    /\ \E i \in 1..Len(st_body) : st_body[i] = "L"

\* ---- C39
\* C39: when the flag is found set while a turn's stream is being consumed,
\* run_conversation returns Ok after chat:cancelled alone: no chat:tool-start
\* is emitted, call_tool is not invoked, and no message is appended
C39_CancelInStreamRunsNoTool ==
    [][ (pc = "streaming" /\ should_cancel /\ <<pc, nread>>' # <<pc, nread>>) =>
           /\ pc' = "returned"
           /\ result' = Ok
           /\ messages' = messages
           /\ mcp_calls' = mcp_calls
           /\ emitted' = Append(emitted, [topic |-> "chat:cancelled", payload |-> <<>>]) ]_vars

\* the flag was found set in the first turn, after tool calls had been pushed
C39_Witness ==
    /\ pc = "returned"
    /\ loop_count = 1
    /\ cancel_at >= turn_at
    /\ tool_calls # <<>>
    /\ emitted[Len(emitted)].topic = "chat:cancelled"
    /\ messages = initial_messages
    /\ mcp_calls = <<>>

\* ---- C40
RunningLoops == { i \in StartInvocations : mn_task[i] \in {"while", "body"} }

\* C40: at any time at most one monitoring loop task is running
C40_AtMostOneMonitoringLoop == Cardinality(RunningLoops) <= 1

===============================================================================
